---- MODULE Spec2Model ----
(***************************************************************************)
(* Model of the Modbus sniffer hub (custom_components/modbus_sniffer):     *)
(* the CRC engine and frame reconstructor of parser.py, the PDU parsers,   *)
(* and the byte-processing / correlation / register-store path of hub.py,  *)
(* the life of a hub (async_start, async_stop, the reader task _tcp_run)   *)
(* and the hub registry of the sensor platform (sensor.py).                *)
(* Bytes are integers 0..255, byte strings are sequences of bytes, and the *)
(* monotonic clock is counted in milliseconds.                             *)
(***************************************************************************)
EXTENDS Integers, Sequences, FiniteSets, TLC

VARIABLES
    mode,       \* ModbusSnifferHub._mode
    buffer,     \* ModbusSnifferHub._buffer
    pending,    \* ModbusSnifferHub._pending_reads
    values,     \* ModbusSnifferHub._values (insertion-ordered dict)
    now,        \* loop.time(), in milliseconds
    wire,       \* bytes of a frame still in flight in the capture stream
    sent,       \* the frame the last chunk was cut from, the cut and which part it was
    data,       \* the chunk handed to the last _process_bytes call
    payload,    \* local `payload` of the last _process_bytes call
    frames,     \* local `frames` of the last _process_bytes call
    starts,     \* value of `idx` at each frames.append of that call
    emitted,    \* async_dispatcher_send calls made by that call, in order
    handled,    \* per FC03 response handled by that call: what the correlator did
    prev,       \* _buffer and _pending_reads as they were before that call
    calls,      \* number of _process_bytes calls made so far
    origins,    \* for each entry of emitted, the index in frames of its frame
    received,   \* number of bytes of the capture stream received so far
    log,        \* every async_dispatcher_send so far, with its frame's stream offset
    transport,  \* ModbusSnifferHub._transport is not None
    tcp_task,   \* ModbusSnifferHub._tcp_task: "none", "alive" or "done"
    tcp_writer, \* ModbusSnifferHub._tcp_writer is not None
    stop_requested, \* ModbusSnifferHub._stop_requested
    lock,       \* holder of ModbusSnifferHub._lock: "free", "start" or "stop"
    pc,         \* the await at which the _tcp_run coroutine is suspended
    cancelling, \* task.cancel() was called and CancelledError is not yet thrown
    backoff,    \* local `backoff` of _tcp_run
    wait,       \* argument of the asyncio.sleep _tcp_run last started
    streak,     \* sleeps of _tcp_run since it started or last connected
    sleeps,     \* sleeps of _tcp_run since it started
    connects,   \* connections _tcp_run has established since it started
    ev,         \* what async_start or async_stop last did
    held,       \* open datagram endpoints and live reader tasks the hub created
    hubs,       \* component_data[DATA_HUB].get(hub_key): a hub or None
    listeners,  \* component_data[DATA_LISTENERS].get(hub_key): a count or None
    objs,       \* the ModbusSnifferHub objects the sensor platform has created
    port,       \* the hub whose socket is bound to the UDP address, or None
    setups,     \* the calls of _async_setup_sensors with this hub_key
    sensors,    \* the ModbusSnifferSensor entities present, each with its hub
    message_history, \* udp_web_server.message_history, oldest message first
    maxlen,     \* message_history.maxlen
    subscribers, \* udp_web_server.subscribers: the handlers whose queue is in the set
    queues,     \* per /events handler, the content of its SimpleQueue
    sse,        \* per /events handler: its position, its snapshot, what it emitted
    published,  \* number of broadcast calls made so far; messages are numbered
    pushing,    \* the message broadcast has appended and not yet put, or None
    packet_log, \* the lines of the file at PACKET_LOG_PATH
    written,    \* the (timestamp, payload) pairs the lines of the file stand for
    probe       \* the last call of a pure function of udp_web_server: input, result

\* the byte path of the hub and the history of its last _process_bytes call
streamVars == <<buffer, pending, values, wire, sent, data, payload, frames,
                starts, emitted, handled, prev, calls, origins, received, log>>

\* the lifecycle of the hub: its endpoint, its reader task and their history
lifeVars == <<transport, tcp_task, tcp_writer, stop_requested, lock, pc,
              cancelling, backoff, wait, streak, sleeps, connects, ev, held>>

\* the hub registry of the sensor platform, for one hub_key
regVars == <<hubs, listeners, objs, port, setups, sensors>>

\* the event bus of the web viewer
busVars == <<message_history, maxlen, subscribers, queues, sse, published, pushing>>

\* the packet log of the web viewer
logVars == <<packet_log, written>>

\* the state of udp_web_server.py
webVars == <<busVars, logVars, probe>>

vars == <<mode, now, streamVars, lifeVars, regVars, webVars>>

----------------------------------------------------------------------------
(* Bounds of the model *)

MaxCalls == 2
MaxPacedCalls == 3
MaxTime == 5001
MaxSleeps == 7
MaxLifeCalls == 2
MaxSetups == 3
MaxBindings == 2
MaxBroadcasts == 3
MaxSubscribers == 1
MaxHistory == 2
MaxLogLines == 3
MaxCrcLen == 4
MaxPayloadLen == 7
LongLines == 90
LongBlock == 16

TickSteps == {2500, 2501}

----------------------------------------------------------------------------
(* Program constants *)

MODE_UDP == "udp"
MODE_TCP == "tcp"

TTL == 5000
BackoffStart == 1
BackoffCap == 30
MaxFrameLen == 256
CrcInit == 65535
MESSAGE_HISTORY == 2
HistoryLimit == 1000

None == -1

Min(a, b) == IF a < b THEN a ELSE b

MinOf(S) == CHOOSE x \in S : \A y \in S : x <= y

----------------------------------------------------------------------------
(* parser.py: CRC engine *)

RECURSIVE Xor(_, _)
Xor(a, b) ==
    IF a = 0 THEN b
    ELSE IF b = 0 THEN a
    ELSE ((a + b) % 2) + 2 * Xor(a \div 2, b \div 2)

\* x ^ w for a power of two w: flip that bit of x
FlipBit(x, w) == IF (x \div w) % 2 = 1 THEN x - w ELSE x + w

\* x ^ 0xA001: 0xA001 has exactly the bits 15, 13 and 0 set
XorPoly(x) == FlipBit(FlipBit(FlipBit(x, 1), 8192), 32768)

\* one turn of `for _ in range(8)`: shift right, XOR the polynomial in when
\* the low bit was set
CrcStep(crc) == IF crc % 2 = 1 THEN XorPoly(crc \div 2) ELSE crc \div 2

RECURSIVE CrcShift(_, _)
CrcShift(crc, n) ==
    IF n = 0 \/ crc < 0 THEN crc
    ELSE CrcShift(CrcStep(crc), n - 1)

RECURSIVE CrcFold(_, _, _)
CrcFold(bytes, i, crc) ==
    IF i > Len(bytes) \/ crc < 0 THEN crc
    ELSE CrcFold(bytes, i + 1, CrcShift(Xor(crc, bytes[i]), 8))

compute_crc(bytes) == CrcFold(bytes, 1, CrcInit) % 65536

\* int.from_bytes(b, "little") and int.from_bytes(b, "big") of a 2-byte string
FromLittle(b) == b[1] + 256 * b[2]
FromBig(b) == 256 * b[1] + b[2]

\* variant of the encoding with the high byte first
crc_le_swapped(bytes) == <<compute_crc(bytes) \div 256, compute_crc(bytes) % 256>>

\* two-byte little-endian encoding of a CRC, as it appears on the wire
crc_le(bytes) == <<compute_crc(bytes) % 256, compute_crc(bytes) \div 256>>

\* Python slice s[a:b] with 0 <= a, clamped at len(s)
Slice(s, a, b) == SubSeq(s, a + 1, Min(b, Len(s)))

----------------------------------------------------------------------------
(* parser.py: frame reconstructor *)

Evens(lo, hi) == {x \in lo..hi : x % 2 = 0}

_candidate_frame_lengths(function_code, max_len) ==
    IF function_code = None THEN 4..max_len
    ELSE
    LET fc == function_code % 128
        lengths ==
            IF fc \in {1, 2} THEN
                {8} \cup {c \in {5 + bc : bc \in 1..(Min(252, max_len - 4) - 1)} :
                             c <= max_len}
            ELSE IF fc \in {3, 4} THEN
                {8} \cup {c \in {5 + bc : bc \in Evens(2, Min(2 * 125, max_len - 5))} :
                             c <= max_len}
            ELSE IF fc \in {5, 6} THEN {8}
            ELSE IF fc = 15 THEN
                {8} \cup {c \in {9 + bc : bc \in 1..Min(246, max_len - 9)} :
                             c <= max_len}
            ELSE IF fc = 16 THEN
                {8} \cup {c \in {9 + bc : bc \in Evens(2, Min(2 * 123, max_len - 9))} :
                             c <= max_len}
            ELSE IF function_code >= 128 THEN {5}
            ELSE {}
        filled == IF lengths = {} THEN 4..max_len ELSE lengths
    IN  {length \in filled : 4 <= length /\ length <= max_len}

\* variant of CrcMatches that accepts a candidate without comparing the CRC
CrcMatches_unchecked(bytes, idx, length) ==
    /\ idx + length <= Len(bytes)
    /\ length >= 4

\* the CRC test of one candidate slice (parser.py lines 77-84)
CrcMatches(bytes, idx, length) ==
    /\ idx + length <= Len(bytes)
    /\ length >= 4
    /\ compute_crc(Slice(bytes, idx, idx + length - 2))
         = FromLittle(Slice(bytes, idx + length - 2, idx + length))

\* variant of the loop that stops at the first position where no candidate
\* matches and returns everything from there as leftover
RECURSIVE SplitFrom_stopping(_, _, _, _)
SplitFrom_stopping(bytes, idx, fs, ss) ==
    LET n == Len(bytes) IN
    IF idx + 4 > n
    THEN [frames |-> fs, starts |-> ss, leftover |-> Slice(bytes, idx, n)]
    ELSE
        LET func == IF idx + 1 < n THEN bytes[idx + 2] ELSE None
            max_len == Min(MaxFrameLen, n - idx)
            candidates == _candidate_frame_lengths(func, max_len)
            hits == {length \in candidates : CrcMatches(bytes, idx, length)}
        IN  IF hits # {}
            THEN LET length == MinOf(hits) IN
                 SplitFrom_stopping(bytes, idx + length,
                                    Append(fs, Slice(bytes, idx, idx + length)),
                                    Append(ss, idx))
            ELSE [frames |-> fs, starts |-> ss, leftover |-> Slice(bytes, idx, n)]

RECURSIVE SplitFrom(_, _, _, _)
SplitFrom(bytes, idx, fs, ss) ==
    LET n == Len(bytes) IN
    IF idx + 4 > n
    THEN [frames |-> fs, starts |-> ss, leftover |-> Slice(bytes, idx, n)]
    ELSE
        LET func == IF idx + 1 < n THEN bytes[idx + 2] ELSE None
            max_len == Min(MaxFrameLen, n - idx)
            candidates == _candidate_frame_lengths(func, max_len)
            hits == {length \in candidates : CrcMatches(bytes, idx, length)}
        IN  IF hits # {}
            THEN LET length == MinOf(hits) IN
                 SplitFrom(bytes, idx + length,
                           Append(fs, Slice(bytes, idx, idx + length)),
                           Append(ss, idx))
            ELSE SplitFrom(bytes, idx + 1, fs, ss)

\* variant of split_modbus_frames that returns the whole input as leftover
split_modbus_frames_whole(bytes) ==
    [SplitFrom(bytes, 0, <<>>, <<>>) EXCEPT !.leftover = bytes]

split_modbus_frames(bytes) == SplitFrom(bytes, 0, <<>>, <<>>)

----------------------------------------------------------------------------
(* parser.py: PDU parsers.  A result is a record whose field `some` tells  *)
(* a tuple from None.                                                      *)

NoResult == [some |-> FALSE]

\* frame[2:-2]
PayloadOf(frame) == Slice(frame, 2, Len(frame) - 2)

\* the big-endian 16-bit values of the complete 2-byte chunks of data_bytes
WordsOf(data_bytes) ==
    [i \in 1..(Len(data_bytes) \div 2) |->
        FromBig(<<data_bytes[2 * i - 1], data_bytes[2 * i]>>)]

parse_fc03_request(frame) ==
    IF Len(frame) < 8 THEN NoResult
    ELSE IF frame[2] % 128 # 3 \/ frame[2] >= 128 THEN NoResult
    ELSE IF Len(PayloadOf(frame)) # 4 THEN NoResult
    ELSE [some |-> TRUE, unit |-> frame[1],
          start_addr |-> FromBig(Slice(PayloadOf(frame), 0, 2)),
          quantity |-> FromBig(Slice(PayloadOf(frame), 2, 4))]

\* variant of parse_fc03_response that ignores byte_count
parse_fc03_response_all(frame) ==
    IF Len(frame) < 5 THEN NoResult
    ELSE IF frame[2] % 128 # 3 \/ frame[2] >= 128 THEN NoResult
    ELSE IF PayloadOf(frame) = <<>> THEN NoResult
    ELSE
        LET pl == PayloadOf(frame)
            vals == WordsOf(Slice(pl, 1, Len(pl)))
        IN  IF vals = <<>> THEN NoResult
            ELSE [some |-> TRUE, unit |-> frame[1], values |-> vals]

parse_fc03_response(frame) ==
    IF Len(frame) < 5 THEN NoResult
    ELSE IF frame[2] % 128 # 3 \/ frame[2] >= 128 THEN NoResult
    ELSE IF PayloadOf(frame) = <<>> THEN NoResult
    ELSE
        LET pl == PayloadOf(frame)
            byte_count == pl[1]
            vals == WordsOf(Slice(pl, 1, 1 + byte_count))
        IN  IF vals = <<>> THEN NoResult
            ELSE [some |-> TRUE, unit |-> frame[1], values |-> vals]

\* register, value = struct.unpack(">HH", payload[:4]) read as value, register
parse_fc06_swapped(frame) ==
    IF Len(frame) < 8 THEN NoResult
    ELSE IF frame[2] % 128 # 6 THEN NoResult
    ELSE IF Len(PayloadOf(frame)) < 4 THEN NoResult
    ELSE [some |-> TRUE, unit |-> frame[1],
          register |-> FromBig(Slice(PayloadOf(frame), 2, 4)),
          value |-> FromBig(Slice(PayloadOf(frame), 0, 2))]

parse_fc06(frame) ==
    IF Len(frame) < 8 THEN NoResult
    ELSE IF frame[2] % 128 # 6 THEN NoResult
    ELSE IF Len(PayloadOf(frame)) < 4 THEN NoResult
    ELSE [some |-> TRUE, unit |-> frame[1],
          register |-> FromBig(Slice(PayloadOf(frame), 0, 2)),
          value |-> FromBig(Slice(PayloadOf(frame), 2, 4))]

\* parse_fc16_request without the len(frame) < 9 test: a response is parsed too
parse_fc16_request_short(frame) ==
    IF frame[2] % 128 # 16 \/ frame[2] >= 128 THEN NoResult
    ELSE IF Len(PayloadOf(frame)) < 4 THEN NoResult
    ELSE
        LET pl == PayloadOf(frame)
            vals == WordsOf(Slice(pl, 2, Len(pl)))
        IN  IF vals = <<>> THEN NoResult
            ELSE [some |-> TRUE, unit |-> frame[1],
                  start_addr |-> FromBig(Slice(pl, 0, 2)),
                  values |-> vals]

parse_fc16_request(frame) ==
    IF Len(frame) < 9 THEN NoResult
    ELSE IF frame[2] % 128 # 16 \/ frame[2] >= 128 THEN NoResult
    ELSE IF Len(PayloadOf(frame)) < 5 THEN NoResult
    ELSE
        LET pl == PayloadOf(frame)
            quantity == FromBig(Slice(pl, 2, 4))
            byte_count == pl[5]
            vals == WordsOf(Slice(pl, 5, 5 + byte_count))
        IN  IF vals = <<>> THEN NoResult
            ELSE [some |-> TRUE, unit |-> frame[1],
                  start_addr |-> FromBig(Slice(pl, 0, 2)),
                  values |-> IF 0 < quantity /\ quantity < Len(vals)
                             THEN SubSeq(vals, 1, quantity) ELSE vals]

----------------------------------------------------------------------------
(* hub.py: correlator and register store.  The hub state threaded through  *)
(* the frames of one _process_bytes call is a record                       *)
(*   [pending, values, emitted, handled, origins, cur]                     *)
(* where cur is the index of the frame being handled.                      *)

\* variant of the lookup that reads one deque, that of the lowest unit, for
\* every unit
QueueOf_any(pend, unit) ==
    IF DOMAIN pend = {} THEN <<>>
    ELSE pend[CHOOSE u \in DOMAIN pend : \A w \in DOMAIN pend : u <= w]

\* self._pending_reads[unit] of the defaultdict(deque)
QueueOf(pend, unit) == IF unit \in DOMAIN pend THEN pend[unit] ELSE <<>>

\* self._pending_reads with the deque of `unit` replaced (the key now exists)
WithQueue(pend, unit, queue) ==
    [u \in DOMAIN pend \cup {unit} |-> IF u = unit THEN queue ELSE pend[u]]

\* variant of the append that puts the new request at the head of the queue
Enqueue_front(queue, entry) == <<entry>> \o queue

\* self._pending_reads[unit].append(...): a deque grows at its tail
Enqueue(queue, entry) == Append(queue, entry)

RECURSIVE PurgeQueue(_, _)
PurgeQueue(queue, t) ==
    IF queue # <<>> /\ t - queue[1].at > TTL
    THEN PurgeQueue(Tail(queue), t)
    ELSE queue

\* variant of _purge_old_requests that never drops an entry
_purge_old_requests_never(pend, unit, t) ==
    WithQueue(pend, unit, QueueOf(pend, unit))

_purge_old_requests(pend, unit, t) ==
    WithQueue(pend, unit, PurgeQueue(QueueOf(pend, unit), t))

\* variant of _pop_matching_request that reads the head without removing it
_pop_matching_request_peek(pend, unit, values_len, t) ==
    LET purged == _purge_old_requests(pend, unit, t)
        queue == purged[unit]
    IN  IF queue = <<>>
        THEN [pending |-> purged, found |-> FALSE, start_addr |-> None]
        ELSE [pending |-> purged, found |-> TRUE,
              entry |-> Head(queue), start_addr |-> Head(queue).start_addr]

\* returns the new _pending_reads, the popped entry and the start address
_pop_matching_request(pend, unit, values_len, t) ==
    LET purged == _purge_old_requests(pend, unit, t)
        queue == purged[unit]
    IN  IF queue = <<>>
        THEN [pending |-> purged, found |-> FALSE, start_addr |-> None]
        ELSE [pending |-> WithQueue(purged, unit, Tail(queue)), found |-> TRUE,
              entry |-> Head(queue), start_addr |-> Head(queue).start_addr]

\* variant of the assignment that adds an entry on every write
SetValue_append(vals, sample) == Append(vals, sample)

\* self._values[key] = RegisterValue(...): a dict keeps the position of a key
\* that is already present and appends a new key at the end
SetValue(vals, sample) ==
    IF \E i \in DOMAIN vals :
          vals[i].unit_id = sample.unit_id /\ vals[i].register = sample.register
    THEN [i \in DOMAIN vals |->
            IF vals[i].unit_id = sample.unit_id /\ vals[i].register = sample.register
            THEN sample ELSE vals[i]]
    ELSE Append(vals, sample)

_store_register(st, unit_id, register, value, t) ==
    [st EXCEPT
        !.values = SetValue(@, [unit_id |-> unit_id, register |-> register,
                                value |-> value, updated_at |-> t]),
        !.emitted = Append(@, <<unit_id, register, value>>),
        !.origins = Append(@, st.cur)]

\* for offset, value in enumerate(values): _store_register(unit, start + offset, value)
RECURSIVE StoreAll(_, _, _, _, _, _)
StoreAll(st, unit, start_addr, vals, offset, t) ==
    IF offset >= Len(vals) THEN st
    ELSE StoreAll(_store_register(st, unit, start_addr + offset, vals[offset + 1], t),
                  unit, start_addr, vals, offset + 1, t)

_handle_frame(st, frame, t) ==
    LET unit == frame[1]
        func == frame[2]
        fc == func % 128
    IN
    IF fc = 3 THEN
        LET request == parse_fc03_request(frame)
            response == parse_fc03_response(frame)
        IN
        IF request.some THEN
            [st EXCEPT !.pending =
                _purge_old_requests(
                    WithQueue(@, unit,
                        Enqueue(QueueOf(@, unit),
                                [start_addr |-> request.start_addr,
                                 quantity |-> request.quantity, at |-> t])),
                    unit, t)]
        ELSE IF response.some THEN
            LET pop == _pop_matching_request(st.pending, unit, Len(response.values), t)
                start_addr == IF pop.start_addr = None THEN 0 ELSE pop.start_addr
                stored == StoreAll([st EXCEPT !.pending = pop.pending], unit,
                                   start_addr, response.values, 0, t)
            IN  [stored EXCEPT !.handled =
                    Append(@, [frame |-> frame, unit |-> unit, at |-> t,
                               queue |-> QueueOf(st.pending, unit),
                               after |-> QueueOf(pop.pending, unit),
                               missed |-> ~pop.found,
                               entry |-> IF pop.found THEN <<pop.entry>> ELSE <<>>,
                               events |-> SubSeq(stored.emitted,
                                                 Len(st.emitted) + 1,
                                                 Len(stored.emitted))])]
        ELSE st
    ELSE IF fc = 6 THEN
        LET parsed == parse_fc06(frame) IN
        IF parsed.some
        THEN _store_register(st, unit, parsed.register, parsed.value, t)
        ELSE st
    ELSE IF fc = 16 THEN
        LET write_multi == parse_fc16_request(frame) IN
        IF write_multi.some
        THEN StoreAll(st, unit, write_multi.start_addr, write_multi.values, 0, t)
        ELSE st
    ELSE st

\* for frame in reversed(frames): self._handle_frame(frame)
RECURSIVE HandleAll_reversed(_, _, _, _)
HandleAll_reversed(st, fs, i, t) ==
    IF i > Len(fs) THEN st
    ELSE LET j == Len(fs) + 1 - i
         IN  HandleAll_reversed(_handle_frame([st EXCEPT !.cur = j], fs[j], t),
                                fs, i + 1, t)

\* for frame in frames: self._handle_frame(frame)
RECURSIVE HandleAll(_, _, _, _)
HandleAll(st, fs, i, t) ==
    IF i > Len(fs) THEN st
    ELSE HandleAll(_handle_frame([st EXCEPT !.cur = i], fs[i], t), fs, i + 1, t)

\* the effect of _process_bytes(chunk) on a hub holding buf, pend and vals
ProcessResult(buf, pend, vals, chunk, t) ==
    LET split == CHOOSE r \in {split_modbus_frames(buf \o chunk)} : TRUE
        st == CHOOSE r \in {HandleAll([pending |-> pend, values |-> vals,
                                       emitted |-> <<>>, handled |-> <<>>,
                                       origins |-> <<>>, cur |-> 0],
                                      split.frames, 1, t)} : TRUE
    IN  [buffer |-> split.leftover, payload |-> buf \o chunk,
         frames |-> split.frames, starts |-> split.starts,
         pending |-> st.pending, values |-> st.values,
         emitted |-> st.emitted, handled |-> st.handled,
         origins |-> st.origins]

----------------------------------------------------------------------------
(* The capture stream: the frames and noise the sniffed bus can carry.     *)

\* a body followed by its CRC, little-endian, as a Modbus RTU device sends it
Frame(body) == body \o crc_le(body)

REQ_S1 == Frame(<<1, 3, 0, 0, 0, 2>>)
RSP_S1 == Frame(<<1, 3, 4, 0, 10, 0, 20>>)
RSP_S4 == Frame(<<2, 3, 2, 0, 255>>)
EXC_S5 == Frame(<<1, 131, 2>>)
EXC_07 == Frame(<<1, 135, 2>>)
REQ_16 == Frame(<<1, 3, 0, 16, 0, 1>>)
REQ_HI == Frame(<<1, 3, 255, 255, 0, 3>>)
WR_HI == Frame(<<1, 16, 255, 255, 0, 2, 4, 0, 1, 0, 2>>)
RSP_BC == Frame(<<2, 3, 2, 0, 7, 0, 9>>)
NOISE == <<255>>
WR_S2 == Frame(<<1, 6, 0, 5, 0, 100>>)
WR_S2B == Frame(<<1, 6, 0, 5, 0, 101>>)
WR_U2 == Frame(<<2, 6, 0, 5, 0, 7>>)
WR_S6 == Frame(<<1, 16, 0, 16, 0, 2, 4, 0, 1, 0, 2>>)
ACK_S6 == Frame(<<1, 16, 0, 16, 0, 2>>)

\* scenarios S2 and S6 with the CRC bytes the specification prints
S2_PRINTED == <<255, 1, 6, 0, 5, 0, 100, 88, 126>>
S6_PRINTED == <<1, 16, 0, 16, 0, 2, 4, 0, 1, 0, 2, 82, 212>>

S1_BURST == REQ_S1 \o RSP_S1
GAP_BURST == EXC_07 \o NOISE \o NOISE \o RSP_S4
TAIL_BURST == RSP_S4 \o NOISE \o NOISE \o NOISE \o NOISE \o NOISE
ECHO_BURST == RSP_S1 \o REQ_S1 \o RSP_S1
S2_NOISY == NOISE \o WR_S2
S6_BURST == WR_S6 \o ACK_S6
STORE_BURST == WR_S2 \o WR_U2 \o WR_S2B
WRITE_ECHO == WR_S2 \o WR_S2

\* two units polled in turn: the requests of units 1 and 2, then the response
\* of unit 2 and the response of unit 1
REQ_U2 == Frame(<<2, 3, 0, 32, 0, 1>>)
CROSS_BURST == REQ_S1 \o REQ_U2 \o RSP_S4 \o RSP_S1

\* 8-byte frames whose function byte carries the exception flag: 0x83, 0x86, 0x90
FLAGGED_BURST == Frame(<<1, 131, 0, 0, 0, 2>>) \o Frame(<<1, 134, 0, 5, 0, 100>>)
                 \o Frame(<<1, 144, 0, 16, 0, 2>>)

\* the frames and noise of the sniffed bus
Frames == {REQ_S1, REQ_16, REQ_HI, RSP_S1, RSP_S4, RSP_BC, EXC_S5, EXC_07, WR_HI,
           WR_S2, WR_S6, ACK_S6}

\* what one read or datagram can carry whole: a frame, noise, several frames
Catalog == Frames \cup {NOISE, S1_BURST, GAP_BURST, TAIL_BURST, ECHO_BURST,
                         S2_NOISY, S6_BURST, STORE_BURST, WRITE_ECHO, FLAGGED_BURST, CROSS_BURST,
                         S2_PRINTED,
                         S6_PRINTED}

\* the frames of a paced bus: one whole frame per read, time passing between
Paced == {REQ_S1, REQ_16, REQ_HI, RSP_S1, RSP_S4}

\* ModbusSnifferHub.get_register over the insertion-ordered _values
RECURSIVE ScanNewestFirst(_, _, _)
ScanNewestFirst(vals, register, i) ==
    IF i < 1 THEN None
    ELSE IF vals[i].register = register THEN vals[i].value
    ELSE ScanNewestFirst(vals, register, i - 1)

get_register(vals, unit_id, register) ==
    IF unit_id # None
    THEN IF \E i \in DOMAIN vals :
               vals[i].unit_id = unit_id /\ vals[i].register = register
         THEN LET i == CHOOSE k \in DOMAIN vals :
                          vals[k].unit_id = unit_id /\ vals[k].register = register
              IN  vals[i].value
         ELSE None
    ELSE ScanNewestFirst(vals, register, Len(vals))

NoSent == [frame |-> <<>>, cut |-> 0, phase |-> "whole", clean |-> FALSE]

Whole(items) == {[chunk |-> f, rest |-> <<>>, sent |-> NoSent] : f \in items}

\* what the stream can hand over next: the rest of a frame cut in two, or a
\* whole catalog item, or the first k bytes of a frame (any cut position)
NextChunks ==
    IF wire # <<>>
    THEN {[chunk |-> wire, rest |-> <<>>, sent |-> [sent EXCEPT !.phase = "rest"]]}
    ELSE Whole(Catalog)
         \cup UNION {{[chunk |-> SubSeq(f, 1, k), rest |-> SubSeq(f, k + 1, Len(f)),
                       sent |-> [frame |-> f, cut |-> k, phase |-> "first",
                                clean |-> buffer = <<>>]] :
                         k \in 1..(Len(f) - 1)} : f \in Frames}

----------------------------------------------------------------------------
(* hub.py: the hub as a state machine *)

\* ModbusSnifferHub.__init__: nothing received yet
InitStream ==
    /\ buffer = <<>>
    /\ pending = <<>>
    /\ values = <<>>
    /\ now = 0
    /\ wire = <<>>
    /\ sent = NoSent
    /\ data = <<>>
    /\ payload = <<>>
    /\ frames = <<>>
    /\ starts = <<>>
    /\ emitted = <<>>
    /\ handled = <<>>
    /\ prev = [buffer |-> <<>>, pending |-> <<>>, values |-> <<>>]
    /\ calls = 0
    /\ origins = <<>>
    /\ received = 0
    /\ log = <<>>

\* _ensure_component_data: no hub registered, no setup called yet
InitRegistry ==
    /\ hubs = None
    /\ listeners = None
    /\ objs = [h \in 1..MaxSetups |-> [state |-> "none", transport |-> FALSE,
                                       task |-> FALSE, stop_requested |-> FALSE]]
    /\ port = None
    /\ setups = [i \in 1..MaxSetups |-> [pc |-> "new", hub |-> None, n |-> 0]]
    /\ sensors = {}

\* the /events handlers the model follows
Handlers == 1..MaxSubscribers

\* udp_web_server at import: empty history, no subscriber, empty packet log
InitWeb ==
    /\ message_history = <<>>
    /\ maxlen = MESSAGE_HISTORY
    /\ subscribers = {}
    /\ queues = [h \in Handlers |-> <<>>]
    /\ sse = [h \in Handlers |-> [pc |-> "new", snapshot |-> <<>>, joined |-> <<>>,
                                  after |-> 0, inflight |-> None, seen |-> <<>>]]
    /\ published = 0
    /\ pushing = None
    /\ packet_log = <<>>
    /\ written = <<>>
    /\ probe = [op |-> "none"]

\* ModbusSnifferHub.__init__: no endpoint, no task, no writer
InitIdle ==
    /\ mode \in {MODE_UDP, MODE_TCP}
    /\ InitStream
    /\ InitRegistry
    /\ InitWeb
    /\ transport = FALSE
    /\ tcp_task = "none"
    /\ tcp_writer = FALSE
    /\ stop_requested = FALSE
    /\ lock = "free"
    /\ pc = "start"
    /\ cancelling = FALSE
    /\ backoff = BackoffStart
    /\ wait = 0
    /\ streak = 0
    /\ sleeps = 0
    /\ connects = 0
    /\ ev = "constructed"
    /\ held = [endpoints |-> 0, tasks |-> 0]

\* a hub that async_start has brought up: the UDP endpoint is bound, or the
\* TCP reader task is connected and waits in reader.read
Init ==
    /\ mode \in {MODE_UDP, MODE_TCP}
    /\ InitStream
    /\ InitRegistry
    /\ InitWeb
    /\ transport = (mode = MODE_UDP)
    /\ tcp_task = IF mode = MODE_TCP THEN "alive" ELSE "none"
    /\ tcp_writer = (mode = MODE_TCP)
    /\ stop_requested = FALSE
    /\ lock = "free"
    /\ pc = IF mode = MODE_TCP THEN "read" ELSE "start"
    /\ cancelling = FALSE
    /\ backoff = BackoffStart
    /\ wait = 0
    /\ streak = 0
    /\ sleeps = 0
    /\ connects = IF mode = MODE_TCP THEN 1 ELSE 0
    /\ ev = "start returned"
    /\ held = [endpoints |-> IF mode = MODE_UDP THEN 1 ELSE 0,
               tasks |-> IF mode = MODE_TCP THEN 1 ELSE 0]

\* the dispatches of one _process_bytes call, each with the offset in the
\* capture stream of the frame it was decoded from (base: offset of payload[0])
Logged(r, base) ==
    [k \in 1..Len(r.emitted) |->
        [unit_id |-> r.emitted[k][1], register |-> r.emitted[k][2],
         value |-> r.emitted[k][3], at |-> base + r.starts[r.origins[k]]]]

\* ModbusSnifferHub._process_bytes(data)
_process_bytes(chunk) ==
    /\ data' = chunk
    /\ prev' = [buffer |-> buffer, pending |-> pending, values |-> values]
    /\ received' = received + Len(chunk)
    /\ IF chunk = <<>>
       THEN /\ payload' = <<>> /\ frames' = <<>> /\ starts' = <<>>
            /\ emitted' = <<>> /\ handled' = <<>> /\ origins' = <<>>
            /\ UNCHANGED <<buffer, pending, values, log>>
       ELSE \E r \in {ProcessResult(buffer, pending, values, chunk, now)} :
            /\ buffer' = r.buffer
            /\ payload' = r.payload
            /\ frames' = r.frames
            /\ starts' = r.starts
            /\ pending' = r.pending
            /\ values' = r.values
            /\ emitted' = r.emitted
            /\ handled' = r.handled
            /\ origins' = r.origins
            /\ log' = log \o Logged(r, received - Len(buffer))

\* _UDPProtocol.datagram_received -> ModbusSnifferHub.handle_datagram
handle_datagram(chunks, limit) ==
    /\ mode = MODE_UDP
    /\ transport
    /\ calls < limit
    /\ \E c \in chunks :
          /\ _process_bytes(c.chunk)
          /\ wire' = c.rest
          /\ sent' = c.sent
    /\ calls' = calls + 1
    /\ UNCHANGED <<mode, now, lifeVars, regVars, webVars>>

\* one turn of the read loop of ModbusSnifferHub._tcp_run with data received
TcpRead(chunks, limit) ==
    /\ mode = MODE_TCP
    /\ tcp_task = "alive" /\ pc = "read" /\ ~cancelling
    /\ calls < limit
    /\ \E c \in chunks :
          /\ _process_bytes(c.chunk)
          /\ wire' = c.rest
          /\ sent' = c.sent
    /\ calls' = calls + 1
    /\ UNCHANGED <<mode, now, lifeVars, regVars, webVars>>

\* the event loop's monotonic clock advances between callbacks
Tick ==
    /\ \E d \in TickSteps :
          /\ now + d <= MaxTime
          /\ now' = now + d
    /\ UNCHANGED <<mode, streamVars, lifeVars, regVars, webVars>>

----------------------------------------------------------------------------
(* hub.py: async_start, async_stop and the reader task _tcp_run, one action *)
(* per stretch of code between two awaits                                   *)

taskVars == <<pc, cancelling, backoff, wait, streak, sleeps, connects>>

\* everything of the byte path but _buffer and _pending_reads
streamRest == <<values, wire, sent, data, payload, frames, starts, emitted,
                handled, prev, calls, origins, received, log>>

\* the history of the byte path, which no lifecycle method touches
streamKept == <<wire, sent, data, payload, frames, starts, emitted, handled,
                prev, calls, origins, received, log>>

\* backoff = min(backoff * 2, 30), without the cap
NextBackoff_uncapped(b) == b * 2

\* backoff = min(backoff * 2, 30)
NextBackoff(b) == Min(b * 2, BackoffCap)

\* async_start, UDP, up to `await loop.create_datagram_endpoint(...)`
AsyncStartUdp ==
    /\ mode = MODE_UDP
    /\ lock = "free"
    /\ IF transport
       THEN ev' = "start found it running" /\ UNCHANGED lock
       ELSE ev' = "start awaits endpoint" /\ lock' = "start"
    /\ UNCHANGED <<webVars, regVars, held, mode, now, streamVars, transport, tcp_task, tcp_writer,
                   stop_requested, taskVars>>

\* async_start, UDP: the endpoint is bound, self._transport = transport
UdpBound ==
    /\ lock = "start"
    /\ transport' = TRUE
    /\ held' = [held EXCEPT !.endpoints = @ + 1]
    /\ lock' = "free"
    /\ ev' = "start returned"
    /\ UNCHANGED <<webVars, regVars, mode, now, streamVars, tcp_task, tcp_writer, stop_requested,
                   taskVars>>

\* async_start, UDP: create_datagram_endpoint raises OSError, logged and re-raised
UdpBindFailed ==
    /\ lock = "start"
    /\ lock' = "free"
    /\ ev' = "start raised OSError"
    /\ UNCHANGED <<webVars, regVars, held, mode, now, streamVars, transport, tcp_task, tcp_writer,
                   stop_requested, taskVars>>

\* variant of async_start, TCP, without the test of the running task
AsyncStartTcp_unguarded ==
    /\ mode = MODE_TCP
    /\ lock = "free"
    /\ stop_requested' = FALSE
    /\ tcp_task' = "alive"
    /\ held' = [held EXCEPT !.tasks = @ + 1]
    /\ pc' = "start"
    /\ cancelling' = FALSE
    /\ wait' = 0 /\ streak' = 0 /\ sleeps' = 0 /\ connects' = 0
    /\ UNCHANGED backoff
    /\ ev' = "start returned"
    /\ UNCHANGED <<webVars, regVars, mode, now, streamVars, transport, tcp_writer, lock>>

\* async_start, TCP: no await; a task that is alive is left alone
AsyncStartTcp ==
    /\ mode = MODE_TCP
    /\ lock = "free"
    /\ IF tcp_task = "alive"
       THEN /\ ev' = "start found it running"
            /\ UNCHANGED <<tcp_task, stop_requested, taskVars, held>>
       ELSE /\ stop_requested' = FALSE
            /\ tcp_task' = "alive"
            /\ held' = [held EXCEPT !.tasks = @ + 1]
            /\ pc' = "start"
            /\ cancelling' = FALSE
            /\ wait' = 0 /\ streak' = 0 /\ sleeps' = 0 /\ connects' = 0
            /\ UNCHANGED backoff
            /\ ev' = "start returned"
    /\ UNCHANGED <<webVars, regVars, mode, now, streamVars, transport, tcp_writer, lock>>

async_start == AsyncStartUdp \/ UdpBound \/ UdpBindFailed \/ AsyncStartTcp

\* _tcp_run returns or raises CancelledError: the task is done
TaskEnds ==
    /\ tcp_task' = "done"
    /\ pc' = "end"
    /\ held' = [held EXCEPT !.tasks = @ - 1]

\* `while not self._stop_requested:` of _tcp_run: connect again or return
LoopTop ==
    IF stop_requested
    THEN TaskEnds
    ELSE pc' = "connect" /\ UNCHANGED <<tcp_task, held>>

\* await asyncio.sleep(backoff)
Sleep(where) ==
    /\ sleeps < MaxSleeps
    /\ pc' = where
    /\ wait' = backoff
    /\ streak' = streak + 1
    /\ sleeps' = sleeps + 1
    /\ UNCHANGED <<tcp_task, held>>

\* the task runs for the first time: backoff = 1, up to open_connection
TcpTaskStart ==
    /\ tcp_task = "alive" /\ pc = "start" /\ ~cancelling
    /\ backoff' = BackoffStart
    /\ LoopTop
    /\ UNCHANGED <<webVars, regVars, mode, now, streamVars, transport, tcp_writer, stop_requested,
                   lock, cancelling, wait, streak, sleeps, connects, ev>>

\* open_connection raises OSError: sleep for the current backoff
TcpConnectFailed ==
    /\ tcp_task = "alive" /\ pc = "connect" /\ ~cancelling
    /\ IF stop_requested
       THEN TaskEnds /\ UNCHANGED <<wait, streak, sleeps>>
       ELSE Sleep("sleep after failure")
    /\ UNCHANGED <<webVars, regVars, mode, now, streamVars, transport, tcp_writer, stop_requested,
                   lock, cancelling, backoff, connects, ev>>

\* a sleep is over: backoff = min(backoff * 2, 30), back to the loop test
TcpSleepDone ==
    /\ tcp_task = "alive" /\ pc \in {"sleep after failure", "sleep after loss"}
    /\ ~cancelling
    /\ backoff' = NextBackoff(backoff)
    /\ LoopTop
    /\ UNCHANGED <<webVars, regVars, mode, now, streamVars, transport, tcp_writer, stop_requested,
                   lock, cancelling, wait, streak, sleeps, connects, ev>>

\* open_connection returns without resetting backoff
TcpConnected_noreset ==
    /\ tcp_task = "alive" /\ pc = "connect" /\ ~cancelling
    /\ tcp_writer' = TRUE
    /\ streak' = 0
    /\ connects' = connects + 1
    /\ pc' = IF stop_requested THEN "close" ELSE "read"
    /\ UNCHANGED <<webVars, regVars, held, mode, now, streamVars, transport, tcp_task, stop_requested,
                   lock, cancelling, backoff, wait, sleeps, ev>>

\* open_connection returns: self._tcp_writer = writer, backoff = 1, up to
\* reader.read (or, stop requested, to the finally clause)
TcpConnected ==
    /\ tcp_task = "alive" /\ pc = "connect" /\ ~cancelling
    /\ tcp_writer' = TRUE
    /\ backoff' = BackoffStart
    /\ streak' = 0
    /\ connects' = connects + 1
    /\ pc' = IF stop_requested THEN "close" ELSE "read"
    /\ UNCHANGED <<webVars, regVars, held, mode, now, streamVars, transport, tcp_task, stop_requested,
                   lock, cancelling, wait, sleeps, ev>>

\* reader.read returns b"" or raises: finally, writer.close(), up to
\* `await writer.wait_closed()`
TcpConnectionLost ==
    /\ tcp_task = "alive" /\ pc = "read" /\ ~cancelling
    /\ pc' = "close"
    /\ UNCHANGED <<webVars, regVars, held, mode, now, streamVars, transport, tcp_task, tcp_writer,
                   stop_requested, lock, cancelling, backoff, wait, streak,
                   sleeps, connects, ev>>

\* variant of the end of the finally clause that keeps the leftover bytes
TcpWriterClosed_kept ==
    /\ tcp_task = "alive" /\ pc = "close" /\ ~cancelling
    /\ tcp_writer' = FALSE
    /\ IF stop_requested
       THEN TaskEnds /\ UNCHANGED <<wait, streak, sleeps>>
       ELSE Sleep("sleep after loss")
    /\ UNCHANGED <<webVars, regVars, mode, now, buffer, pending, streamRest, transport,
                   stop_requested, lock, cancelling, backoff, connects, ev>>

\* wait_closed is over: self._tcp_writer = None, self._buffer = b"", then
\* sleep for the current backoff
TcpWriterClosed ==
    /\ tcp_task = "alive" /\ pc = "close" /\ ~cancelling
    /\ tcp_writer' = FALSE
    /\ buffer' = <<>>
    /\ IF stop_requested
       THEN TaskEnds /\ UNCHANGED <<wait, streak, sleeps>>
       ELSE Sleep("sleep after loss")
    /\ UNCHANGED <<webVars, regVars, mode, now, pending, streamRest, transport, stop_requested,
                   lock, cancelling, backoff, connects, ev>>

\* CancelledError is thrown at the await the task is suspended in: from
\* reader.read it runs the finally clause up to wait_closed, from anywhere
\* else (wait_closed of the finally clause too) it leaves _tcp_run at once
TcpCancelled ==
    /\ tcp_task = "alive" /\ cancelling
    /\ cancelling' = FALSE
    /\ IF pc = "read"
       THEN pc' = "close after cancel" /\ UNCHANGED <<tcp_task, held>>
       ELSE TaskEnds
    /\ UNCHANGED <<webVars, regVars, mode, now, streamVars, transport, tcp_writer, stop_requested,
                   lock, backoff, wait, streak, sleeps, connects, ev>>

\* wait_closed is over in a cancelled task: the finally clause completes and
\* CancelledError leaves _tcp_run
TcpWriterClosedCancelled ==
    /\ tcp_task = "alive" /\ pc = "close after cancel" /\ ~cancelling
    /\ tcp_writer' = FALSE
    /\ buffer' = <<>>
    /\ TaskEnds
    /\ UNCHANGED <<webVars, regVars, mode, now, pending, streamRest, transport, stop_requested,
                   lock, cancelling, backoff, wait, streak, sleeps, connects, ev>>

_tcp_run ==
    \/ TcpTaskStart
    \/ TcpConnectFailed
    \/ TcpSleepDone
    \/ TcpConnected
    \/ TcpConnectionLost
    \/ TcpWriterClosed
    \/ TcpCancelled
    \/ TcpWriterClosedCancelled

\* variant of the end of async_stop that also empties the last-value map
ClearOnStop_values ==
    /\ buffer' = <<>>
    /\ pending' = <<>>
    /\ values' = <<>>

\* self._buffer = b""; self._pending_reads.clear(): _values is not touched
ClearOnStop ==
    /\ buffer' = <<>>
    /\ pending' = <<>>
    /\ UNCHANGED values

\* async_stop from `if self._tcp_writer:` on, without closing the writer
StopFromWriter_skipped ==
    /\ lock' = "free"
    /\ ev' = "stop returned"
    /\ ClearOnStop
    /\ UNCHANGED tcp_writer

\* async_stop from `if self._tcp_writer:` on: close the writer and wait for
\* it, or clear the buffer and the pending requests and return
StopFromWriter ==
    IF tcp_writer
    THEN /\ lock' = "stop"
         /\ ev' = "stop awaits writer"
         /\ UNCHANGED <<tcp_writer, buffer, pending, values>>
    ELSE /\ lock' = "free"
         /\ ev' = "stop returned"
         /\ ClearOnStop
         /\ UNCHANGED tcp_writer

\* async_stop up to its first await: close the endpoint, cancel the task
AsyncStop ==
    /\ lock = "free"
    /\ transport' = FALSE
    /\ held' = [held EXCEPT !.endpoints = IF transport THEN @ - 1 ELSE @]
    /\ IF tcp_task = "alive"
       THEN /\ stop_requested' = TRUE
            /\ cancelling' = TRUE
            /\ lock' = "stop"
            /\ ev' = "stop awaits task"
            /\ UNCHANGED <<tcp_task, tcp_writer, buffer, pending, values>>
       ELSE /\ stop_requested' = (stop_requested \/ tcp_task = "done")
            /\ tcp_task' = "none"
            /\ StopFromWriter
            /\ UNCHANGED cancelling
    /\ UNCHANGED <<webVars, regVars, mode, now, streamKept, pc, backoff, wait, streak, sleeps,
                   connects>>

\* async_stop: `await task` is over, self._tcp_task = None
AsyncStopTaskDone ==
    /\ lock = "stop" /\ ev = "stop awaits task"
    /\ tcp_task = "done"
    /\ tcp_task' = "none"
    /\ StopFromWriter
    /\ UNCHANGED <<webVars, regVars, held, mode, now, streamKept, transport, stop_requested, taskVars>>

\* async_stop: wait_closed is over, self._tcp_writer = None, clear and return
AsyncStopWriterClosed ==
    /\ lock = "stop" /\ ev = "stop awaits writer"
    /\ tcp_writer' = FALSE
    /\ ClearOnStop
    /\ lock' = "free"
    /\ ev' = "stop returned"
    /\ UNCHANGED <<webVars, regVars, held, mode, now, streamKept, transport, tcp_task, stop_requested,
                   taskVars>>

async_stop == AsyncStop \/ AsyncStopTaskDone \/ AsyncStopWriterClosed

\* a write, a request and the first bytes of the next frame in one read or
\* datagram
LIFE_BURST == WR_S2 \o REQ_S1 \o <<1, 3>>
LifeChunks == Whole({LIFE_BURST})

\* the life of one hub: started, fed, disconnected, stopped, started again
NextLife ==
    \/ async_start
    \/ _tcp_run
    \/ async_stop
    \/ handle_datagram(LifeChunks, MaxLifeCalls)
    \/ TcpRead(LifeChunks, MaxLifeCalls)

SpecLife == InitIdle /\ [][NextLife]_vars

----------------------------------------------------------------------------
(* sensor.py: the hub registry.  All setups have the same hub_key; setup i  *)
(* creates hub object i when it finds none registered.                      *)

\* hubs.get(hub_key) that finds nothing
RegisteredHub_none == None

\* hubs.get(hub_key)
RegisteredHub == hubs

\* the entities built from the n valid bindings of setup i, bound to hub h
Entities(i, h, n) == {[setup |-> i, k |-> k, hub |-> h] : k \in 1..n}

\* _async_setup_sensors from `entities = []` on, with hub h and count c
AddEntities(i, h, n, c) ==
    /\ listeners' = IF n = 0 THEN c ELSE (IF c = None THEN 0 ELSE c) + n
    /\ sensors' = sensors \cup Entities(i, h, n)
    /\ setups' = [setups EXCEPT ![i] = [pc |-> "done", hub |-> h, n |-> n]]

\* _async_setup_sensors up to its first await: share the registered hub, or
\* create one and start it (TCP: async_start does not wait; UDP: it does)
SetupBegin(i, n) ==
    /\ setups[i].pc = "new"
    /\ IF RegisteredHub # None
       THEN /\ AddEntities(i, RegisteredHub, n, listeners)
            /\ UNCHANGED <<hubs, objs, port>>
       ELSE IF mode = MODE_TCP
       THEN /\ objs' = [objs EXCEPT ![i] = [state |-> "running", transport |-> FALSE,
                                            task |-> TRUE, stop_requested |-> FALSE]]
            /\ hubs' = i
            /\ AddEntities(i, i, n, 0)
            /\ UNCHANGED port
       ELSE /\ objs' = [objs EXCEPT ![i].state = "starting"]
            /\ setups' = [setups EXCEPT ![i] = [pc |-> "starting", hub |-> i, n |-> n]]
            /\ UNCHANGED <<hubs, listeners, port, sensors>>
    /\ UNCHANGED <<webVars, mode, now, streamVars, lifeVars>>

\* create_datagram_endpoint binds the socket: the address must be free
SetupBind(i) ==
    /\ setups[i].pc = "starting"
    /\ port = None
    /\ port' = i
    /\ setups' = [setups EXCEPT ![i].pc = "binding"]
    /\ UNCHANGED <<webVars, mode, now, streamVars, lifeVars, hubs, listeners, objs, sensors>>

\* create_datagram_endpoint raises OSError and the hub is registered anyway
SetupBindFailed_registered(i) ==
    /\ setups[i].pc = "starting"
    /\ objs' = [objs EXCEPT ![i].state = "failed"]
    /\ hubs' = i
    /\ setups' = [setups EXCEPT ![i].pc = "not ready"]
    /\ UNCHANGED <<webVars, mode, now, streamVars, lifeVars, listeners, port, sensors>>

\* create_datagram_endpoint raises OSError (address in use or any other bind
\* failure): async_start re-raises, the setup raises PlatformNotReady
SetupBindFailed(i) ==
    /\ setups[i].pc = "starting"
    /\ objs' = [objs EXCEPT ![i].state = "failed"]
    /\ setups' = [setups EXCEPT ![i].pc = "not ready"]
    /\ UNCHANGED <<webVars, mode, now, streamVars, lifeVars, hubs, listeners, port, sensors>>

\* create_datagram_endpoint returns: self._transport = transport, then
\* hubs[hub_key] = hub, listeners[hub_key] = 0 and the entities
SetupBound(i) ==
    /\ setups[i].pc = "binding"
    /\ objs' = [objs EXCEPT ![i].state = "running", ![i].transport = TRUE]
    /\ hubs' = i
    /\ AddEntities(i, i, setups[i].n, 0)
    /\ UNCHANGED <<webVars, mode, now, streamVars, lifeVars, port>>

_async_setup_sensors ==
    \E i \in 1..MaxSetups :
        \/ \E n \in 0..MaxBindings : SetupBegin(i, n)
        \/ SetupBind(i)
        \/ SetupBindFailed(i)
        \/ SetupBound(i)

\* hub.async_stop() up to its first await: UDP returns, TCP awaits the task
StopHub(h) ==
    IF objs[h].task
    THEN [objs EXCEPT ![h].state = "stopping", ![h].stop_requested = TRUE]
    ELSE [objs EXCEPT ![h].state = "stopped", ![h].transport = FALSE]

\* async_will_remove_from_hass stopping the hub whatever the count
Remove_always(s) ==
    /\ s \in sensors
    /\ sensors' = sensors \ {s}
    /\ IF listeners = None
       THEN UNCHANGED <<hubs, listeners, objs, port>>
       ELSE /\ listeners' = None
            /\ hubs' = None
            /\ IF hubs # None
               THEN /\ objs' = StopHub(hubs)
                    /\ port' = IF port = hubs THEN None ELSE port
               ELSE UNCHANGED <<objs, port>>
    /\ UNCHANGED <<webVars, mode, now, streamVars, lifeVars, setups>>

\* ModbusSnifferSensor.async_will_remove_from_hass
Remove(s) ==
    /\ s \in sensors
    /\ sensors' = sensors \ {s}
    /\ IF listeners = None
       THEN UNCHANGED <<hubs, listeners, objs, port>>
       ELSE IF listeners - 1 <= 0
       THEN /\ listeners' = None
            /\ hubs' = None
            /\ IF hubs # None
               THEN /\ objs' = StopHub(hubs)
                    /\ port' = IF port = hubs THEN None ELSE port
               ELSE UNCHANGED <<objs, port>>
       ELSE /\ listeners' = listeners - 1
            /\ UNCHANGED <<hubs, objs, port>>
    /\ UNCHANGED <<webVars, mode, now, streamVars, lifeVars, setups>>

\* the cancelled reader task is over and async_stop returns
StopDone(h) ==
    /\ objs[h].state = "stopping"
    /\ objs' = [objs EXCEPT ![h].state = "stopped", ![h].task = FALSE]
    /\ UNCHANGED <<webVars, mode, now, streamVars, lifeVars, hubs, listeners, port,
                   setups, sensors>>

async_will_remove_from_hass ==
    \/ \E s \in sensors : Remove(s)
    \/ \E h \in 1..MaxSetups : StopDone(h)

\* sensor-platform setups and entity removals, in any interleaving
NextRegistry ==
    \/ _async_setup_sensors
    \/ async_will_remove_from_hass

SpecRegistry == InitIdle /\ [][NextRegistry]_vars

\* a bursty stream: reads and datagrams carry frames whole, cut or glued
Next ==
    \/ handle_datagram(NextChunks, MaxCalls)
    \/ TcpRead(NextChunks, MaxCalls)

Spec == Init /\ [][Next]_vars

\* a paced bus: one whole frame per read, the clock advancing between reads
NextPaced ==
    \/ handle_datagram(Whole(Paced), MaxPacedCalls)
    \/ TcpRead(Whole(Paced), MaxPacedCalls)
    \/ Tick

SpecPaced == Init /\ [][NextPaced]_vars

TypeOK ==
    /\ mode \in {MODE_UDP, MODE_TCP}
    /\ Len(buffer) <= 3
    /\ calls \in 0..(MaxCalls + MaxPacedCalls)

----------------------------------------------------------------------------
(* udp_web_server.py: the event bus. The listener thread calls broadcast,    *)
(* each /events request runs _serve_events in a thread of its own; what     *)
(* runs under subscribers_lock is one step, what runs outside is its own    *)

webRest == <<mode, now, streamVars, lifeVars, regVars>>

\* variant of the deque that never drops its oldest message
Bounded_all(items, n) == items

\* deque(maxlen=n): appending to a full deque drops from the other end
Bounded(items, n) ==
    IF Len(items) > n THEN SubSeq(items, Len(items) - n + 1, Len(items)) ELSE items

\* main: message_history = deque(maxlen=args.history), before any thread starts
Configure(n) ==
    /\ published = 0 /\ \A h \in Handlers : sse[h].pc = "new"
    /\ maxlen = MESSAGE_HISTORY /\ n # MESSAGE_HISTORY
    /\ maxlen' = n
    /\ UNCHANGED <<webRest, message_history, subscribers, queues, sse, published,
                   pushing, logVars, probe>>

\* broadcast: message_history.append(message), before the lock is taken
BroadcastAppend ==
    /\ pushing = None
    /\ published < MaxBroadcasts
    /\ published' = published + 1
    /\ message_history' = Bounded(Append(message_history, published + 1), maxlen)
    /\ pushing' = published + 1
    /\ UNCHANGED <<webRest, maxlen, subscribers, queues, sse, logVars, probe>>

\* broadcast: with subscribers_lock, queue.put(message) for every subscriber
BroadcastPut ==
    /\ pushing # None
    /\ queues' = [h \in Handlers |->
                    IF h \in subscribers THEN Append(queues[h], pushing) ELSE queues[h]]
    /\ pushing' = None
    /\ UNCHANGED <<webRest, message_history, maxlen, subscribers, sse, published,
                   logVars, probe>>

broadcast == BroadcastAppend \/ BroadcastPut

\* _serve_events: with subscribers_lock, add the queue and copy the history
Join(h) ==
    /\ sse[h].pc = "new"
    /\ subscribers' = subscribers \cup {h}
    /\ sse' = [sse EXCEPT ![h] = [pc |-> "replay", snapshot |-> message_history,
                                  joined |-> message_history, after |-> published,
                                  inflight |-> pushing, seen |-> <<>>]]
    /\ UNCHANGED <<webRest, message_history, maxlen, queues, published, pushing,
                   logVars, probe>>

\* _serve_events: for item in history_snapshot: self._emit_event(item)
EmitReplay(h) ==
    /\ sse[h].pc = "replay"
    /\ sse[h].snapshot # <<>>
    /\ sse' = [sse EXCEPT ![h].seen = Append(@, Head(sse[h].snapshot)),
                          ![h].snapshot = Tail(@)]
    /\ UNCHANGED <<webRest, message_history, maxlen, subscribers, queues, published,
                   pushing, logVars, probe>>

\* _serve_events: item = queue.get(); self._emit_event(item)
EmitLive(h) ==
    /\ sse[h].pc = "live" \/ (sse[h].pc = "replay" /\ sse[h].snapshot = <<>>)
    /\ queues[h] # <<>>
    /\ sse' = [sse EXCEPT ![h].seen = Append(@, Head(queues[h])), ![h].pc = "live"]
    /\ queues' = [queues EXCEPT ![h] = Tail(@)]
    /\ UNCHANGED <<webRest, message_history, maxlen, subscribers, published, pushing,
                   logVars, probe>>

\* _serve_events: the client is gone, _emit_event raises; finally, with
\* subscribers_lock, subscribers.discard(queue)
Disconnect(h) ==
    /\ sse[h].pc \in {"replay", "live"}
    /\ sse' = [sse EXCEPT ![h].pc = "gone"]
    /\ subscribers' = subscribers \ {h}
    /\ UNCHANGED <<webRest, message_history, maxlen, queues, published, pushing,
                   logVars, probe>>

_serve_events ==
    \E h \in Handlers : Join(h) \/ EmitReplay(h) \/ EmitLive(h) \/ Disconnect(h)

NextBus ==
    \/ \E n \in 0..MaxHistory : Configure(n)
    \/ broadcast
    \/ _serve_events

SpecBus == InitIdle /\ [][NextBus]_vars

----------------------------------------------------------------------------
(* udp_web_server.py: the packet log, a text file of lines                   *)
(* `timestamp,hex payload`; a line is a sequence of characters               *)

HexDigits == <<"0", "1", "2", "3", "4", "5", "6", "7", "8", "9",
               "A", "B", "C", "D", "E", "F">>

LowerDigits == <<"0", "1", "2", "3", "4", "5", "6", "7", "8", "9",
                 "a", "b", "c", "d", "e", "f">>

Whitespace == {" ", "\t"}

\* variant of the hex form of a byte without the leading zero
Hex_unpadded(b) ==
    IF b < 16 THEN <<HexDigits[b + 1]>>
    ELSE <<HexDigits[(b \div 16) + 1], HexDigits[(b % 16) + 1]>>

\* bytes.hex(...).upper() for one byte: two digits
Hex(b) == <<HexDigits[(b \div 16) + 1], HexDigits[(b % 16) + 1]>>

\* data.hex(" ").upper() if data else ""
RECURSIVE format_bytes(_)
format_bytes(bytes) ==
    IF bytes = <<>> THEN <<>>
    ELSE IF Len(bytes) = 1 THEN Hex(bytes[1])
    ELSE Hex(bytes[1]) \o <<" ">> \o format_bytes(Tail(bytes))

\* the value of each hex digit, upper and lower case
HexTable ==
    [c \in {HexDigits[i] : i \in 1..16} \cup {LowerDigits[i] : i \in 1..16} |->
        IF \E i \in 1..16 : HexDigits[i] = c
        THEN (CHOOSE i \in 1..16 : HexDigits[i] = c) - 1
        ELSE (CHOOSE i \in 1..16 : LowerDigits[i] = c) - 1]

\* the value of a hex digit, or None for another character
HexValue(c) == IF c \in DOMAIN HexTable THEN HexTable[c] ELSE None

\* bytes.fromhex of a string without whitespace; ok is FALSE for ValueError
fromhex(chars) ==
    IF Len(chars) % 2 # 0 \/ \E i \in DOMAIN chars : HexValue(chars[i]) = None
    THEN [ok |-> FALSE, bytes |-> <<>>]
    ELSE [ok |-> TRUE,
          bytes |-> [k \in 1..(Len(chars) \div 2) |->
                       HexValue(chars[2 * k - 1]) * 16 + HexValue(chars[2 * k])]]

\* "".join(hex_payload.split())
StripWhitespace(chars) == SelectSeq(chars, LAMBDA c : c \notin Whitespace)

\* what read_packet_log makes of one line: a sequence of zero or one entries
ParseLine(line) ==
    IF line = <<>> THEN <<>>
    ELSE IF \A i \in DOMAIN line : line[i] # "," THEN <<>>
    ELSE LET comma == CHOOSE i \in DOMAIN line :
                         line[i] = "," /\ \A j \in 1..(i - 1) : line[j] # ","
             timestamp == SubSeq(line, 1, comma - 1)
             payload_clean == StripWhitespace(SubSeq(line, comma + 1, Len(line)))
         IN  IF payload_clean = <<>> THEN <<<<timestamp, <<>>>>>>
             ELSE IF ~fromhex(payload_clean).ok THEN <<>>
             ELSE <<<<timestamp, fromhex(payload_clean).bytes>>>>

RECURSIVE ParseLines(_)
ParseLines(lines) ==
    IF lines = <<>> THEN <<>>
    ELSE ParseLine(Head(lines)) \o ParseLines(Tail(lines))

\* read_packet_log(max_lines) on a file that holds `lines`
read_packet_log(lines, max_lines) ==
    IF max_lines # None /\ max_lines <= 0 THEN <<>>
    ELSE IF max_lines # None /\ max_lines < Len(lines)
    THEN ParseLines(SubSeq(lines, Len(lines) - max_lines + 1, Len(lines)))
    ELSE ParseLines(lines)

\* time.strftime("%Y-%m-%d %H:%M:%S") at two moments
STAMP_A == <<"2", "0", "2", "5", "-", "0", "1", "-", "3", "1", " ",
             "2", "3", ":", "5", "9", ":", "5", "9">>
STAMP_B == <<"2", "0", "2", "5", "-", "0", "2", "-", "0", "1", " ",
             "0", "0", ":", "0", "0", ":", "0", "0">>

Stamps == {STAMP_A, STAMP_B}

\* payloads the listener can receive: empty, one byte, bytes above and below 16
LogPayloads == {<<>>, <<3>>, <<1, 3>>, <<171, 10, 255>>}

\* lines another writer can have put into the file, each with the entry it
\* stands for: unspaced hex, lower-case hex, and lines that stand for nothing
\* (no comma, empty, a payload that is not hex, an odd number of digits)
ForeignLines ==
    {[line |-> STAMP_A \o <<",", "0", "1", "0", "3">>, entry |-> <<<<STAMP_A, <<1, 3>>>>>>],
     [line |-> STAMP_B \o <<",", "a", "b", " ", "0", "A">>,
      entry |-> <<<<STAMP_B, <<171, 10>>>>>>],
     [line |-> <<"0", "1", " ", "0", "3">>, entry |-> <<>>],
     [line |-> <<>>, entry |-> <<>>],
     [line |-> STAMP_A \o <<",", "0", "G">>, entry |-> <<>>],
     [line |-> STAMP_B \o <<",", "0", "1", "0">>, entry |-> <<>>]}

\* append_packet_log(timestamp, data), called by process_incoming_payload
append_packet_log(timestamp, bytes) ==
    /\ Len(packet_log) < MaxLogLines
    /\ packet_log' = Append(packet_log, timestamp \o <<",">> \o format_bytes(bytes))
    /\ written' = Append(written, <<timestamp, bytes>>)
    /\ UNCHANGED <<webRest, busVars, probe>>

\* a line of the file that append_packet_log did not write
ForeignLine(f) ==
    /\ Len(packet_log) < MaxLogLines
    /\ packet_log' = Append(packet_log, f.line)
    /\ written' = written \o f.entry
    /\ UNCHANGED <<webRest, busVars, probe>>

NextLog ==
    \/ \E timestamp \in Stamps, bytes \in LogPayloads : append_packet_log(timestamp, bytes)
    \/ \E f \in ForeignLines : ForeignLine(f)

SpecLog == InitIdle /\ [][NextLog]_vars

----------------------------------------------------------------------------
(* udp_web_server.py: the filters of the history pages                       *)

IsDigit(c) == HexValue(c) \in 0..9

\* int(chars, base) for digits only: the value, most significant digit first
RECURSIVE ToInt(_, _, _)
ToInt(chars, base, acc) ==
    IF chars = <<>> THEN acc
    ELSE ToInt(Tail(chars), base, acc * base + HexValue(Head(chars)))

\* parse_address_value(raw): None for "" and for what int() rejects
parse_address_value(raw) ==
    IF raw = <<>> THEN None
    ELSE IF Len(raw) >= 2 /\ raw[1] = "0" /\ raw[2] \in {"x", "X"}
    THEN LET digits == SubSeq(raw, 3, Len(raw))
         IN  IF digits = <<>> \/ \E i \in DOMAIN digits : HexValue(digits[i]) = None
             THEN None
             ELSE ToInt(digits, 16, 0)
    ELSE IF \E i \in DOMAIN raw : ~IsDigit(raw[i]) THEN None
    ELSE ToInt(raw, 10, 0)

\* the days of a month of the Gregorian calendar
DaysIn(year, month) ==
    IF month = 2
    THEN IF year % 4 = 0 /\ (year % 100 # 0 \/ year % 400 = 0) THEN 29 ELSE 28
    ELSE IF month \in {4, 6, 9, 11} THEN 30 ELSE 31

\* datetime.strptime(raw, "%Y-%m-%d %H:%M:%S") for full-width fields: the
\* fields as numbers, or ok = FALSE for ValueError
strptime(raw) ==
    LET shaped == /\ Len(raw) = 19
                  /\ raw[5] = "-" /\ raw[8] = "-" /\ raw[11] = " "
                  /\ raw[14] = ":" /\ raw[17] = ":"
                  /\ \A i \in (1..19) \ {5, 8, 11, 14, 17} : IsDigit(raw[i])
        field(a, b) == ToInt(SubSeq(raw, a, b), 10, 0)
    IN  IF ~shaped THEN [ok |-> FALSE, at |-> <<>>]
        ELSE LET at == <<field(1, 4), field(6, 7), field(9, 10), field(12, 13),
                         field(15, 16), field(18, 19)>>
             IN  IF /\ at[1] >= 1 /\ at[2] \in 1..12
                    /\ at[3] \in 1..DaysIn(at[1], at[2])
                    /\ at[4] <= 23 /\ at[5] <= 59 /\ at[6] <= 59
                 THEN [ok |-> TRUE, at |-> at]
                 ELSE [ok |-> FALSE, at |-> <<>>]

\* datetime < datetime: the fields compared from the year down
RECURSIVE Earlier(_, _)
Earlier(a, b) ==
    IF a = <<>> \/ b = <<>> THEN FALSE
    ELSE IF Head(a) # Head(b) THEN Head(a) < Head(b)
    ELSE Earlier(Tail(a), Tail(b))

NoTime == [given |-> FALSE, at |-> <<>>]

\* parse_datetime_value(raw): the datetime or None, and whether it is an error
parse_datetime_value(raw) ==
    IF raw = <<>> THEN [time |-> NoTime, error |-> FALSE]
    ELSE IF strptime(raw).ok
    THEN [time |-> [given |-> TRUE, at |-> strptime(raw).at], error |-> FALSE]
    ELSE [time |-> NoTime, error |-> TRUE]

\* variant of the repair of inverted bounds that leaves them as given
Ordered_asgiven(given, inverted, start, end) ==
    [start |-> start, end |-> end, swapped |-> FALSE]

\* if start is not None and end is not None and end < start: swap, and a message
Ordered(given, inverted, start, end) ==
    IF given /\ inverted
    THEN [start |-> end, end |-> start, swapped |-> TRUE]
    ELSE [start |-> start, end |-> end, swapped |-> FALSE]

\* prepare_history_filters(query): query holds the stripped first values
prepare_history_filters(query) ==
    LET start_addr == parse_address_value(query.start)
        end_addr == parse_address_value(query.end)
        addr == Ordered(start_addr # None /\ end_addr # None, end_addr < start_addr,
                        start_addr, end_addr)
        start_time == parse_datetime_value(query.start_ts)
        end_time == parse_datetime_value(query.end_ts)
        time == Ordered(start_time.time.given /\ end_time.time.given,
                        Earlier(end_time.time.at, start_time.time.at),
                        start_time.time, end_time.time)
    IN  [start_addr |-> addr.start, end_addr |-> addr.end,
         start_time |-> time.start, end_time |-> time.end,
         start_raw |-> query.start, end_raw |-> query.end,
         start_ts_raw |-> query.start_ts, end_ts_raw |-> query.end_ts,
         messages |->
            (IF addr.swapped THEN <<"Intervallo indirizzi invertito: limiti scambiati.">>
             ELSE <<>>)
            \o (IF start_time.error THEN <<<<"Formato data/ora non valido", "start_ts">>>>
                ELSE <<>>)
            \o (IF end_time.error THEN <<<<"Formato data/ora non valido", "end_ts">>>>
                ELSE <<>>)
            \o (IF time.swapped
                THEN <<"Intervallo temporale invertito: limiti scambiati.">>
                ELSE <<>>)]

\* the body of the filter loop of _serve_history_fc03: the row is appended
Kept(filters, row) ==
    LET dt == strptime(row.timestamp)
    IN  /\ ~(filters.start_addr # None /\ row.address_dec < filters.start_addr)
        /\ ~(filters.end_addr # None /\ row.address_dec > filters.end_addr)
        /\ ~(filters.start_time.given
               /\ (~dt.ok \/ Earlier(dt.at, filters.start_time.at)))
        /\ ~(filters.end_time.given
               /\ (~dt.ok \/ Earlier(filters.end_time.at, dt.at)))

Take(items, n) == IF Len(items) > n THEN SubSeq(items, 1, n) ELSE items

\* _serve_history_fc03: the filters, and the rows of the page
_serve_history_fc03(query, all_rows) ==
    LET filters == prepare_history_filters(query)
        filtered_rows == SelectSeq(all_rows, LAMBDA row : Kept(filters, row))
    IN  [filters |-> filters, messages |-> filters.messages,
         rows |-> Take(filtered_rows, HistoryLimit)]

STAMP_C == <<"2", "0", "2", "5", "-", "0", "2", "-", "0", "1", " ",
             "1", "2", ":", "3", "0", ":", "0", "0">>

\* a timestamp of the log that strptime rejects
STAMP_BAD == <<"2", "0", "2", "5", "-", "0", "2", "-", "0", "1">>

\* the rows extract_fc03_reads found in the log, newest first
HistoryRows ==
    <<[timestamp |-> STAMP_C, address_dec |-> 16], [timestamp |-> STAMP_C, address_dec |-> 5],
      [timestamp |-> STAMP_BAD, address_dec |-> 6], [timestamp |-> STAMP_B, address_dec |-> 17],
      [timestamp |-> STAMP_B, address_dec |-> 6], [timestamp |-> STAMP_B, address_dec |-> 4],
      [timestamp |-> STAMP_A, address_dec |-> 16], [timestamp |-> STAMP_A, address_dec |-> 7],
      [timestamp |-> STAMP_A, address_dec |-> 5]>>

\* what the query can carry as start and end: nothing, decimal, hex, not a number
AddressInputs == {<<>>, <<"5">>, <<"0", "x", "1", "0">>, <<"7">>, <<"z">>}

\* what the query can carry as start_ts and end_ts
TimeInputs == {<<>>, STAMP_A, STAMP_B, STAMP_C, STAMP_BAD}

\* GET /history/fc03 with a query; the page depends on nothing but the
\* query and the log, so one request is followed from the initial state
HistoryFc03(query) ==
    /\ probe.op = "none"
    /\ probe' = [op |-> "history", query |-> query,
                 result |-> _serve_history_fc03(query, HistoryRows)]
    /\ UNCHANGED <<webRest, busVars, logVars>>

----------------------------------------------------------------------------
(* udp_web_server.py: the PDU decoder of the web viewer                      *)

MODBUS_FUNCTION_NAMES ==
    [c \in {1, 2, 3, 4, 5, 6, 15, 16} |->
        CASE c = 1 -> "Read Coils"
          [] c = 2 -> "Read Discrete Inputs"
          [] c = 3 -> "Read Holding Registers"
          [] c = 4 -> "Read Input Registers"
          [] c = 5 -> "Write Single Coil"
          [] c = 6 -> "Write Single Register"
          [] c = 15 -> "Write Multiple Coils"
          [] c = 16 -> "Write Multiple Registers"]

MODBUS_EXCEPTION_CODES ==
    [c \in {1, 2, 3, 4, 5, 6, 8, 10, 11} |->
        CASE c = 1 -> "Funzione non supportata"
          [] c = 2 -> "Indirizzo dati errato"
          [] c = 3 -> "Valore dati non valido"
          [] c = 4 -> "Errore del dispositivo slave"
          [] c = 5 -> "Acknowledge"
          [] c = 6 -> "Slave busy"
          [] c = 8 -> "Parity error"
          [] c = 10 -> "Gate path unavailable"
          [] c = 11 -> "Target device fail to respond"]

\* f"{value:0{width}X}": upper-case hex, at least width digits
RECURSIVE HexN(_, _)
HexN(value, width) ==
    IF width <= 1 /\ value < 16 THEN <<HexDigits[value + 1]>>
    ELSE HexN(value \div 16, width - 1) \o <<HexDigits[(value % 16) + 1]>>

make_field(label, value, size) ==
    [label |-> label, hex |-> <<"0", "x">> \o HexN(value, size * 2), dec |-> value]

make_raw_field(label, bytes) ==
    [label |-> label, hex |-> format_bytes(bytes), dec |-> None]

\* a note or a summary: its fixed text and the values formatted into it
Text(text, args) == [text |-> text, args |-> args]

\* every bit of every byte, least significant bit first
RECURSIVE CoilBits(_)
CoilBits(bytes) ==
    IF bytes = <<>> THEN <<>>
    ELSE [k \in 1..8 |-> (Head(bytes) \div (2 ^ (k - 1))) % 2] \o CoilBits(Tail(bytes))

\* extract_coils(data, quantity): the loop returns once len(coils) >= quantity,
\* which it tests after each append
extract_coils(bytes, quantity) ==
    IF quantity = None THEN CoilBits(bytes)
    ELSE Take(CoilBits(bytes), IF quantity < 1 THEN 1 ELSE quantity)

RECURSIVE SumOf(_)
SumOf(items) == IF items = <<>> THEN 0 ELSE Head(items) + SumOf(Tail(items))

\* for idx in range(0, len(data), 2): a field per 16-bit value, numbered from
\* `first`, and a raw field for a last odd byte
RegisterFields(bytes, first) ==
    [k \in 1..((Len(bytes) + 1) \div 2) |->
        IF 2 * k <= Len(bytes)
        THEN make_field(<<"Registro", k - 1 + first>>,
                        FromBig(SubSeq(bytes, 2 * k - 1, 2 * k)), 2)
        ELSE make_raw_field(<<"Dato incompleto", k - 1 + first>>,
                            SubSeq(bytes, 2 * k - 1, Len(bytes)))]

\* the 16-bit values among those fields
RegisterValues(bytes) ==
    [k \in 1..(Len(bytes) \div 2) |-> FromBig(SubSeq(bytes, 2 * k - 1, 2 * k))]

Decoded(fields, notes, summary, function_label, frame_type, is_exception) ==
    [fields |-> fields, notes |-> notes, summary |-> summary,
     function_label |-> function_label, frame_type |-> frame_type,
     is_exception |-> is_exception]

NoSummary == Text("", <<>>)

\* variant of the test of the exception bit that tests bit 6
IsException_bit6(function_code) == (function_code \div 64) % 2 = 1

\* function_code & 0x80 == 0x80
IsException(function_code) == (function_code \div 128) % 2 = 1

\* fc in (1, 2, 3, 4)
DecodeRead(fc, pdu, function_label, summary_prefix) ==
    LET length == Len(pdu)
    IN  IF length # 4 /\ length >= 1
        THEN LET data_bytes == Slice(pdu, 1, length)
                 byte_count == Min(pdu[1], Len(data_bytes))
                 data_portion == Slice(data_bytes, 0, byte_count)
                 extra == Slice(data_bytes, byte_count, Len(data_bytes))
                 mismatch ==
                    IF pdu[1] # Len(data_bytes)
                    THEN <<Text("Byte count non coerente con la lunghezza dei dati.", <<>>)>>
                    ELSE <<>>
                 register_values == RegisterValues(data_portion)
                 coils == extract_coils(data_portion, None)
             IN  IF fc \in {3, 4}
                 THEN Decoded(
                        <<make_field(<<"Byte Count">>, pdu[1], 1)>>
                            \o RegisterFields(data_portion, 1),
                        mismatch \o
                            (IF register_values # <<>>
                             THEN <<Text("Valori registri",
                                         <<Take(register_values, 12),
                                           Len(register_values) > 12>>),
                                    Text("Registri letti", <<Len(register_values)>>)>>
                             ELSE <<>>),
                        Text("Risposta", <<summary_prefix, byte_count>>),
                        function_label, "response", FALSE)
                 ELSE Decoded(
                        <<make_field(<<"Byte Count">>, pdu[1], 1)>>
                            \o (IF data_portion # <<>>
                                THEN <<make_raw_field(<<"Coils/Data">>, data_portion)>>
                                ELSE <<>>)
                            \o (IF extra # <<>>
                                THEN <<make_raw_field(<<"Dati extra">>, extra)>>
                                ELSE <<>>),
                        mismatch \o
                            (IF data_portion # <<>>
                             THEN <<Text("Coil attive",
                                         <<SumOf(coils), Len(coils), Take(coils, 16)>>)>>
                             ELSE <<>>),
                        Text("Risposta", <<summary_prefix, byte_count>>),
                        function_label, "response", FALSE)
        ELSE IF length >= 4
        THEN LET start_addr == FromBig(Slice(pdu, 0, 2))
                 quantity == FromBig(Slice(pdu, 2, 4))
                 extra == Slice(pdu, 4, length)
             IN  Decoded(
                    <<make_field(<<"Start Address">>, start_addr, 2),
                      make_field(<<"Quantity">>, quantity, 2)>>
                        \o (IF extra # <<>>
                            THEN <<make_raw_field(<<"Dati aggiuntivi">>, extra)>>
                            ELSE <<>>),
                    IF extra # <<>>
                    THEN <<Text("Sono presenti byte aggiuntivi oltre ai campi standard della richiesta.",
                                <<>>)>>
                    ELSE <<>>,
                    Text("Richiesta", <<summary_prefix, start_addr, quantity>>),
                    function_label, "request", FALSE)
        ELSE Decoded(<<>>, <<>>, NoSummary, function_label, "unknown", FALSE)

\* the byte sequences of length n over a set of bytes
RECURSIVE SeqsOf(_, _)
SeqsOf(bytes, n) ==
    IF n = 0 THEN {<<>>}
    ELSE {Append(p, b) : p \in SeqsOf(bytes, n - 1), b \in bytes}

CrcBytes == {0, 1, 90, 128, 255}

\* the inputs of compute_crc: nothing, every single byte, short sequences of
\* bytes with low, high and mixed bits, and the body of a request
CrcInputs ==
    SeqsOf(0..255, 1) \cup UNION {SeqsOf(CrcBytes, n) : n \in 0..MaxCrcLen}
        \cup {<<1, 3, 0, 0, 0, 2>>}

\* fc in (5, 6)
DecodeWriteSingle(fc, pdu, function_label, summary_prefix) ==
    IF Len(pdu) >= 4
    THEN LET address == FromBig(Slice(pdu, 0, 2))
             value == FromBig(Slice(pdu, 2, 4))
             status == IF value = 65280 THEN <<"ON">>
                       ELSE IF value = 0 THEN <<"OFF">>
                       ELSE <<"valore 0x">> \o HexN(value, 4)
         IN  Decoded(
                <<make_field(<<"Address">>, address, 2), make_field(<<"Value">>, value, 2)>>,
                <<>>,
                IF fc = 5 THEN Text("coil", <<summary_prefix, address, status>>)
                ELSE Text("registro", <<summary_prefix, address, value>>),
                function_label, "request/response", FALSE)
    ELSE Decoded(IF pdu # <<>> THEN <<make_raw_field(<<"Payload">>, pdu)>> ELSE <<>>,
                 <<>>, NoSummary, function_label, "unknown", FALSE)

\* fc == 15 and fc == 16
DecodeWriteMultiple(fc, pdu, function_label, summary_prefix) ==
    LET length == Len(pdu)
        start_addr == FromBig(Slice(pdu, 0, 2))
        quantity == FromBig(Slice(pdu, 2, 4))
    IN  IF length = 4
        THEN Decoded(
                <<make_field(<<"Start Address">>, start_addr, 2),
                  make_field(<<"Quantity">>, quantity, 2)>>,
                <<>>,
                Text("Risposta", <<summary_prefix, start_addr, quantity>>),
                function_label, "response", FALSE)
        ELSE IF length >= 5
        THEN LET byte_count == pdu[5]
                 vals == Slice(pdu, 5, 5 + byte_count)
                 extra == Slice(pdu, 5 + byte_count, length)
                 coils == extract_coils(vals, quantity)
                 head == <<make_field(<<"Start Address">>, start_addr, 2),
                           make_field(<<"Quantity">>, quantity, 2),
                           make_field(<<"Byte Count">>, byte_count, 1)>>
                 tail == IF extra # <<>>
                         THEN <<make_raw_field(<<"Dati extra">>, extra)>>
                         ELSE <<>>
                 short == IF Len(vals) < byte_count
                          THEN <<Text("Byte count maggiore dei dati disponibili.", <<>>)>>
                          ELSE <<>>
             IN  IF fc = 15
                 THEN Decoded(
                        head \o (IF vals # <<>>
                                 THEN <<make_raw_field(<<"Values">>, vals)>>
                                 ELSE <<>>) \o tail,
                        (IF vals # <<>> /\ coils # <<>>
                         THEN <<Text("Valori coil",
                                     <<start_addr, Take(coils, 16), Len(coils) > 16>>)>>
                         ELSE <<>>) \o short,
                        Text("Richiesta", <<summary_prefix, start_addr, quantity, byte_count>>),
                        function_label, "request", FALSE)
                 ELSE Decoded(
                        head \o RegisterFields(vals, 0) \o tail,
                        short,
                        Text("Richiesta", <<summary_prefix, start_addr, quantity, byte_count>>),
                        function_label, "request", FALSE)
        ELSE Decoded(IF pdu # <<>> THEN <<make_raw_field(<<"Payload">>, pdu)>> ELSE <<>>,
                     <<>>, NoSummary, function_label, "unknown", FALSE)

\* decode_modbus_payload(function_code, payload)
decode_modbus_payload(function_code, pdu) ==
    IF function_code = None
    THEN Decoded(IF pdu # <<>> THEN <<make_raw_field(<<"Payload">>, pdu)>> ELSE <<>>,
                 <<>>, NoSummary, None, "unknown", FALSE)
    ELSE LET fc == function_code % 128
             function_label == IF fc \in DOMAIN MODBUS_FUNCTION_NAMES
                               THEN MODBUS_FUNCTION_NAMES[fc] ELSE "None"
             summary_prefix == IF fc \in DOMAIN MODBUS_FUNCTION_NAMES
                               THEN <<MODBUS_FUNCTION_NAMES[fc]>>
                               ELSE <<"Funzione 0x">> \o HexN(fc, 2)
         IN  IF IsException(function_code)
             THEN Decoded(
                    IF pdu # <<>>
                    THEN <<make_field(<<"Exception Code">>, pdu[1], 1)>>
                            \o (IF Len(pdu) > 1
                                THEN <<make_raw_field(<<"Dati extra">>, Slice(pdu, 1, Len(pdu)))>>
                                ELSE <<>>)
                    ELSE <<>>,
                    IF pdu # <<>>
                    THEN <<Text(IF pdu[1] \in DOMAIN MODBUS_EXCEPTION_CODES
                                THEN MODBUS_EXCEPTION_CODES[pdu[1]]
                                ELSE "Codice eccezione sconosciuto", <<>>)>>
                    ELSE <<Text("Nessun codice eccezione fornito", <<>>)>>,
                    Text("Eccezione", summary_prefix),
                    function_label, "exception", TRUE)
             ELSE IF fc \in {1, 2, 3, 4}
             THEN DecodeRead(fc, pdu, function_label, summary_prefix)
             ELSE IF fc \in {5, 6}
             THEN DecodeWriteSingle(fc, pdu, function_label, summary_prefix)
             ELSE IF fc \in {15, 16}
             THEN DecodeWriteMultiple(fc, pdu, function_label, summary_prefix)
             ELSE Decoded(IF pdu # <<>> THEN <<make_raw_field(<<"Payload">>, pdu)>> ELSE <<>>,
                          <<>>,
                          IF pdu # <<>> THEN Text("byte", <<summary_prefix, Len(pdu)>>)
                          ELSE NoSummary,
                          function_label, "unknown", FALSE)

\* the function bytes followed: none, the eight the decoder knows, others,
\* and bytes with the exception bit
DecodeFunctions == {None, 0, 1, 2, 3, 4, 5, 6, 7, 15, 16, 100, 129, 131, 144, 255}

\* the bytes payloads are built of: 0 and 2 as byte counts and addresses,
\* 255 as a byte count no payload can honour
PayloadBytes == {0, 2, 255}

DecodeInputs == UNION {SeqsOf(PayloadBytes, n) : n \in 0..MaxPayloadLen}

\* decode_modbus_payload called on a function byte and a payload
Decode(function_code, pdu) ==
    /\ probe.op = "none"
    /\ probe' = [op |-> "decode_modbus_payload", function_code |-> function_code,
                 pdu |-> pdu, result |-> decode_modbus_payload(function_code, pdu)]
    /\ UNCHANGED <<webRest, busVars, logVars>>

\* compute_crc(p), and compute_crc of p followed by its CRC as sent on the wire
ComputeCrc(p) ==
    /\ probe.op = "none"
    /\ probe' = [op |-> "compute_crc", p |-> p, crc |-> compute_crc(p),
                 framed |-> compute_crc(p \o crc_le(p))]
    /\ UNCHANGED <<webRest, busVars, logVars>>

----------------------------------------------------------------------------
(* udp_web_server.py: the frame reconstructor of the dashboard and the      *)
(* extractor of the history pages                                           *)

\* _candidate_frame_lengths of udp_web_server.py: the function byte is
\* compared as received, its exception flag included
web_candidate_frame_lengths(func, max_len) ==
    IF func = None THEN 4..max_len
    ELSE
    LET lengths ==
            IF func \in {1, 2} THEN
                {8} \cup {c \in {5 + bc : bc \in 1..(Min(252, max_len - 4) - 1)} :
                             c <= max_len}
            ELSE IF func \in {3, 4} THEN
                {8} \cup {c \in {5 + bc : bc \in Evens(2, Min(2 * 125, max_len - 5))} :
                             c <= max_len}
            ELSE IF func \in {5, 6} THEN {8}
            ELSE IF func = 15 THEN
                {8} \cup {c \in {9 + bc : bc \in 1..Min(246, max_len - 9)} :
                             c <= max_len}
            ELSE IF func = 16 THEN
                {8} \cup {c \in {9 + bc : bc \in Evens(2, Min(2 * 123, max_len - 9))} :
                             c <= max_len}
            ELSE IF func >= 128 THEN {5}
            ELSE {}
        filled == IF lengths = {} THEN 4..max_len ELSE lengths
    IN  {length \in filled : 4 <= length /\ length <= max_len}

RECURSIVE WebSplitFrom(_, _, _)
WebSplitFrom(bytes, idx, fs) ==
    LET n == Len(bytes) IN
    IF idx + 4 > n
    THEN [frames |-> fs, leftover |-> Slice(bytes, idx, n)]
    ELSE
        LET func == IF idx + 1 < n THEN bytes[idx + 2] ELSE None
            max_len == Min(MaxFrameLen, n - idx)
            candidates == web_candidate_frame_lengths(func, max_len)
            hits == {length \in candidates : CrcMatches(bytes, idx, length)}
        IN  IF hits # {}
            THEN LET length == MinOf(hits) IN
                 WebSplitFrom(bytes, idx + length,
                              Append(fs, Slice(bytes, idx, idx + length)))
            ELSE WebSplitFrom(bytes, idx + 1, fs)

\* split_modbus_frames of udp_web_server.py
web_split_modbus_frames(bytes) == WebSplitFrom(bytes, 0, <<>>)

\* str(n) of a natural number
RECURSIVE Dec(_)
Dec(n) == IF n < 10 THEN <<HexDigits[n + 1]>>
          ELSE Dec(n \div 10) \o <<HexDigits[(n % 10) + 1]>>

NoRequest == [some |-> FALSE]

\* the rows appended for one response of extract_fc03_reads
RowsOf(timestamp, pending_request, register_values) ==
    [offset \in 1..Len(register_values) |->
        LET addr == IF pending_request.some
                    THEN pending_request.start_addr + (offset - 1)
                    ELSE offset - 1
        IN  [timestamp |-> timestamp,
             address_dec |-> addr,
             address_hex |-> IF pending_request.some
                             THEN <<"0", "x">> \o HexN(addr, 4)
                             ELSE <<"R", "e", "g", " ">> \o Dec(addr),
             value_dec |-> register_values[offset],
             value_hex |-> <<"0", "x">> \o HexN(register_values[offset], 4)]]

\* the loop of extract_fc03_reads over the frames of one entry
RECURSIVE ExtractFrames(_, _, _)
ExtractFrames(timestamp, frame_list, pending_request) ==
    IF frame_list = <<>> THEN <<>>
    ELSE
    LET frame == Head(frame_list)
        rest == Tail(frame_list)
    IN  IF Len(frame) < 3 THEN ExtractFrames(timestamp, rest, pending_request)
        ELSE IF frame[2] % 128 # 3 \/ frame[2] >= 128
        THEN ExtractFrames(timestamp, rest, pending_request)
        ELSE
        LET pl == IF Len(frame) >= 4 THEN PayloadOf(frame)
                  ELSE Slice(frame, 2, Len(frame))
        IN  IF Len(pl) = 4
            THEN ExtractFrames(timestamp, rest,
                               [some |-> TRUE,
                                start_addr |-> FromBig(Slice(pl, 0, 2)),
                                quantity |-> FromBig(Slice(pl, 2, 4))])
            ELSE IF pl = <<>> THEN ExtractFrames(timestamp, rest, pending_request)
            ELSE
            LET byte_count == pl[1]
                register_values == WordsOf(Slice(pl, 1, 1 + byte_count))
            IN  IF register_values = <<>>
                THEN ExtractFrames(timestamp, rest, pending_request)
                ELSE RowsOf(timestamp, pending_request, register_values)
                       \o ExtractFrames(timestamp, rest, NoRequest)

\* the rows of one entry of the loop of extract_fc03_reads
EntryRows(entry) ==
    LET timestamp == entry[1]
        bytes == entry[2]
        found == web_split_modbus_frames(bytes).frames
        frame_list == IF found # <<>> THEN found ELSE <<bytes>>
    IN  IF bytes = <<>> THEN <<>>
        ELSE ExtractFrames(timestamp, frame_list, NoRequest)

\* seqs[lo] \o ... \o seqs[hi]
RECURSIVE ConcatRange(_, _, _)
ConcatRange(seqs, lo, hi) ==
    IF lo > hi THEN <<>>
    ELSE IF lo = hi THEN seqs[lo]
    ELSE LET mid == (lo + hi) \div 2
         IN  ConcatRange(seqs, lo, mid) \o ConcatRange(seqs, mid + 1, hi)

\* extract_fc03_reads(entries): entries are tuples <<timestamp, data>>
extract_fc03_reads(entries) ==
    ConcatRange([i \in DOMAIN entries |-> EntryRows(entries[i])], 1, Len(entries))

\* variant of reversed(entries) that leaves the entries in file order
Reversed_fileorder(items) == items

\* reversed(entries)
Reversed(items) == [i \in 1..Len(items) |-> items[Len(items) + 1 - i]]

\* the timestamp of the line written at second i of an hour
StampOf(i) ==
    <<"2", "0", "2", "5", "-", "0", "2", "-", "0", "1", " ", "0", "0", ":">>
        \o <<HexDigits[(i \div 600) + 1], HexDigits[((i \div 60) % 10) + 1], ":",
             HexDigits[((i % 60) \div 10) + 1], HexDigits[(i % 10) + 1]>>

\* the registers a device answers with at second i
ReadingAt(i) == [k \in 1..LongBlock |-> 300 * k + i]

\* the payload logged at second i: a read of LongBlock registers from address
\* 0 and its response; every seventh payload is a write, which holds no read
LoggedAt(i) ==
    IF i % 7 = 0 THEN WR_S2
    ELSE Frame(<<1, 3, 0, 0, 0, LongBlock>>)
         \o Frame(<<1, 3, 2 * LongBlock>> \o
                [k \in 1..(2 * LongBlock) |->
                    IF k % 2 = 1 THEN ReadingAt(i)[(k + 1) \div 2] \div 256
                    ELSE ReadingAt(i)[k \div 2] % 256])

\* a packet log of LongLines lines, as append_packet_log writes them
LongLog ==
    [i \in 1..LongLines |-> StampOf(i) \o <<",">> \o format_bytes(LoggedAt(i))]

\* GET /history/fc03 on the packet log LongLog
LoggedRows == extract_fc03_reads(Reversed(read_packet_log(LongLog, None)))

\* the queries of the long log: address bounds and an upper time bound
LongQueries ==
    {[start |-> start, end |-> end, start_ts |-> <<>>, end_ts |-> end_ts] :
        start \in {<<>>, <<"1">>}, end \in {<<>>, <<"1", "4">>},
        end_ts \in {<<>>, StampOf(LongLines - 5)}}

\* GET /history/fc03 with a query, the packet log holding LongLog
HistoryLogged(query) ==
    /\ probe.op = "none"
    /\ probe' = [op |-> "history_log", query |-> query,
                 result |-> _serve_history_fc03(query, LoggedRows)]
    /\ UNCHANGED <<webRest, busVars, logVars>>

\* payloads of FC03 traffic of unit 1: request and response, a response
\* without request, a response before and after a request, two requests
\* followed by their two responses, a request answered twice
RSP_16 == Frame(<<1, 3, 2, 0, 77>>)
PIPELINED == REQ_S1 \o REQ_16 \o RSP_S1 \o RSP_16
ReadPayloads == {S1_BURST, RSP_S1, ECHO_BURST, PIPELINED, REQ_16 \o RSP_16 \o RSP_S1,
                 REQ_HI \o RSP_S1}

\* one payload given to the history extractor as a log entry and to a hub
\* that has just started: no pending request, no stored value, no time passing
Correlate(bytes) ==
    /\ probe.op = "none"
    /\ probe' = [op |-> "correlate", bytes |-> bytes,
                 rows |-> extract_fc03_reads(<<<<STAMP_A, bytes>>>>),
                 emitted |-> ProcessResult(<<>>, <<>>, <<>>, bytes, 0).emitted]
    /\ UNCHANGED <<webRest, busVars, logVars>>

\* split_modbus_frames of parser.py and of udp_web_server.py, called with the
\* same bytes
SplitFrames(bytes) ==
    /\ probe.op = "none"
    /\ probe' = [op |-> "split_modbus_frames", bytes |-> bytes,
                 hub |-> [frames |-> split_modbus_frames(bytes).frames,
                          leftover |-> split_modbus_frames(bytes).leftover],
                 web |-> web_split_modbus_frames(bytes)]
    /\ UNCHANGED <<webRest, busVars, logVars>>

\* the requests and calls that only compute: each leaves its input and its
\* result in probe
NextPure ==
    \/ probe.op = "none" /\ \E p \in CrcInputs : ComputeCrc(p)
    \/ probe.op = "none" /\ \E query \in LongQueries : HistoryLogged(query)
    \/ probe.op = "none" /\ \E bytes \in Catalog : SplitFrames(bytes)
    \/ probe.op = "none" /\ \E bytes \in ReadPayloads : Correlate(bytes)
    \/ probe.op = "none" /\ \E function_code \in DecodeFunctions, pdu \in DecodeInputs :
            Decode(function_code, pdu)
    \/ probe.op = "none" /\ \E start \in AddressInputs, end \in AddressInputs,
                                start_ts \in TimeInputs, end_ts \in TimeInputs :
            HistoryFc03([start |-> start, end |-> end,
                         start_ts |-> start_ts, end_ts |-> end_ts])

SpecPure == InitIdle /\ [][NextPure]_vars

----------------------------------------------------------------------------
(* Properties *)

\* the events one whole frame would produce on a hub with an empty buffer
EventsOfWhole(pend, vals, frame, t) ==
    ProcessResult(<<>>, pend, vals, frame, t).emitted

\* C1: in TCP mode a CRC-valid frame delivered in two successive chunks, cut
\* at any byte position, is not lost: after the first chunk no update is
\* emitted and the leftover buffer equals the first chunk; after the second
\* chunk the hub emits the updates the frame would produce in one chunk.
C1_SplitFrameNotLost ==
    (mode = MODE_TCP /\ sent.clean) =>
        /\ sent.phase = "first" => (emitted = <<>> /\ buffer = data)
        /\ sent.phase = "rest" =>
              emitted = EventsOfWhole(prev.pending, prev.values, sent.frame, now)

\* the entries of a queue that have not expired at time t
Live(queue, t) == SelectSeq(queue, LAMBDA e : t - e.at <= TTL)

\* the updates of values vals at registers base, base + 1, ... of a unit
UpdatesAt(unit, base, vals) ==
    [k \in 1..Len(vals) |-> <<unit, base + k - 1, vals[k]>>]

\* C2: handling an FC03 response of unit u first purges the expired entries
\* of pending[u]; if entries remain, exactly the head (the oldest) is removed
\* and the values go to registers start, start+1, ... of that request, however
\* many values the response carries; if none remain they go to 0, 1, ...
C2_ResponseUsesHead ==
    \A i \in DOMAIN handled :
        LET h == handled[i]
            live == Live(h.queue, h.at)
            vals == WordsOf(Slice(PayloadOf(h.frame), 1, 1 + h.frame[3]))
        IN  IF live # <<>>
            THEN /\ h.after = Tail(live)
                 /\ h.events = UpdatesAt(h.unit, Head(live).start_addr, vals)
            ELSE /\ h.after = <<>>
                 /\ h.events = UpdatesAt(h.unit, 0, vals)

\* C2 witness: a response found an expired request ahead of a live one,
\* dropped the first and consumed the second
C2_Witness ==
    \E i \in DOMAIN handled :
        /\ Len(handled[i].queue) >= 2
        /\ handled[i].at - handled[i].queue[1].at > TTL
        /\ handled[i].entry = <<handled[i].queue[2]>>
        /\ handled[i].events[1][2] = handled[i].queue[2].start_addr

\* C3: a pending request recorded at time t is never the base of a response
\* handled later than t + 5.0 s; such a response takes its base from a
\* request of the unit that has not expired, or takes base 0.
C3_ExpiredNeverUsed ==
    \A i \in DOMAIN handled :
        LET h == handled[i] IN
        /\ h.entry # <<>> =>
              /\ h.at - h.entry[1].at <= TTL
              /\ h.events[1][2] = h.entry[1].start_addr
        /\ h.entry = <<>> => h.events[1][2] = 0
        /\ \A k \in DOMAIN h.queue :
              h.at - h.queue[k].at > TTL => h.entry # <<h.queue[k]>>

\* C3 witness: a response handled after the only pending request had expired
C3_Witness ==
    \E i \in DOMAIN handled :
        /\ handled[i].queue # <<>>
        /\ \A k \in DOMAIN handled[i].queue :
              handled[i].at - handled[i].queue[k].at >= TTL + 1
        /\ handled[i].missed

\* C4: in UDP mode each datagram is parsed on its own: nothing left over from
\* an earlier datagram is prepended, so the frames extracted depend only on
\* the datagram's bytes.
C4_DatagramsStandAlone ==
    (mode = MODE_UDP /\ data # <<>>) =>
        /\ payload = data
        /\ frames = split_modbus_frames(data).frames

\* C5: a 5-byte buffer whose function byte has bit 7 set and whose last two
\* bytes are the little-endian CRC of the first three is emitted whole as one
\* frame, with empty leftover.
C5_ExceptionFrameEmitted ==
    (/\ Len(payload) = 5
     /\ payload[2] >= 128
     /\ SubSeq(payload, 4, 5) = crc_le(SubSeq(payload, 1, 3)))
        => (frames = <<payload>> /\ buffer = <<>>)

RECURSIVE Concat(_)
Concat(seqs) == IF seqs = <<>> THEN <<>> ELSE Head(seqs) \o Concat(Tail(seqs))

IsSuffix(s, t) == Len(s) <= Len(t) /\ s = SubSeq(t, Len(t) - Len(s) + 1, Len(t))

\* positions (from 0) of the bytes of the payload that lie in frame i
FrameBytes(i) == starts[i]..(starts[i] + Len(frames[i]) - 1)

\* C6 as stated: the frames followed by the leftover are a suffix of the
\* buffer, and every byte of the buffer belongs to an emitted frame, precedes
\* an emitted frame or lies in the leftover.
C6_FramesPlusLeftoverIsSuffix ==
    /\ IsSuffix(Concat(frames) \o buffer, payload)
    /\ \A j \in 0..(Len(payload) - 1) :
          \/ \E i \in DOMAIN frames : j \in FrameBytes(i)
          \/ \E i \in DOMAIN frames : j < starts[i]
          \/ j >= Len(payload) - Len(buffer)

\* C6 amended: the frames are disjoint slices of the buffer in increasing
\* position, and the leftover is a suffix of the buffer that begins at or
\* after the end of the last frame; bytes skipped by resynchronisation
\* (before a frame, between frames, or between the last frame and the
\* leftover) are in neither.
C6_FramesAreOrderedSlices ==
    /\ Len(starts) = Len(frames)
    /\ \A i \in DOMAIN frames :
          /\ starts[i] >= 0
          /\ frames[i] = SubSeq(payload, starts[i] + 1, starts[i] + Len(frames[i]))
          /\ i > 1 => starts[i] >= starts[i - 1] + Len(frames[i - 1])
    /\ IsSuffix(buffer, payload)
    /\ frames # <<>> =>
          Len(payload) - Len(buffer)
             >= starts[Len(frames)] + Len(frames[Len(frames)])

\* C6 witness: two frames with skipped bytes between them
C6_Witness ==
    /\ Len(frames) = 2
    /\ starts[2] > starts[1] + Len(frames[1])

\* C7: every frame the reconstructor returns is 4 to 256 bytes long and ends
\* with the little-endian CRC of the bytes before it.
C7_FramesAreCrcValid ==
    \A i \in DOMAIN frames :
        LET f == frames[i] IN
        /\ Len(f) >= 4
        /\ Len(f) <= MaxFrameLen
        /\ FromLittle(SubSeq(f, Len(f) - 1, Len(f)))
             = compute_crc(SubSeq(f, 1, Len(f) - 2))

\* C7 witness: a payload with noise around it yielded frames of two lengths
C7_Witness ==
    /\ Len(frames) = 2
    /\ Len(frames[1]) # Len(frames[2])
    /\ Len(payload) > Len(frames[1]) + Len(frames[2])

\* C8: the updates of an FC03 response that found no pending request are
\* flagged, so a consumer can tell them from the updates of a correlated
\* response: no uncorrelated response emits what a correlated one emits.
C8_MissedIsDistinguishable ==
    \A i, j \in DOMAIN handled :
        (handled[i].missed /\ ~handled[j].missed)
            => handled[i].events # handled[j].events

\* C9: every update the hub emits or stores has unit_id in 0..255, register
\* in 0..0xFFFF and raw_value in 0..0xFFFF.
C9_UpdateFieldsInRange ==
    /\ \A i \in DOMAIN emitted :
          /\ emitted[i][1] \in 0..255
          /\ emitted[i][2] \in 0..65535
          /\ emitted[i][3] \in 0..65535
    /\ \A i \in DOMAIN values :
          /\ values[i].unit_id \in 0..255
          /\ values[i].register \in 0..65535
          /\ values[i].value \in 0..65535

\* the number of 16-bit values an FC03 response frame carries: byte_count
\* bytes of data, as far as the frame holds them
CarriedValues(frame) == Min(frame[3], Len(frame) - 5) \div 2

\* C10: the number of updates emitted for one FC03 response frame equals the
\* number of 16-bit values the response carries, matched or not.
C10_OneUpdatePerValue ==
    /\ \A i \in DOMAIN handled :
          Len(handled[i].events) = CarriedValues(handled[i].frame)
    /\ (/\ Len(frames) = 1
        /\ frames[1][2] = 3
        /\ Len(frames[1]) # 8)
          => Len(emitted) = CarriedValues(frames[1])

\* C10 witness: one call handled an unmatched and a matched response
C10_Witness ==
    \E i, j \in DOMAIN handled :
        /\ handled[i].missed
        /\ ~handled[j].missed
        /\ Len(handled[i].events) = 2
        /\ Len(handled[j].events) = 2

\* the dispatches of the last _process_bytes call that came from frames[i]
EventsFrom(i) ==
    LET idx == SelectSeq([k \in DOMAIN emitted |-> k], LAMBDA k : origins[k] = i)
    IN  [n \in DOMAIN idx |-> emitted[idx[n]]]

\* C11 as written, scenario S2 with the printed bytes: FF 01 06 00 05 00 64
\* 58 7E yields the single event (1, 5, 100) with empty leftover.
C11_PrintedS2EmitsOne ==
    (data = S2_PRINTED /\ prev.buffer = <<>>) =>
        (emitted = <<<<1, 5, 100>>>> /\ buffer = <<>>)

\* C11: a decoded FC06 frame emits exactly one update (unit, register, value)
\* taken from the frame, and a call that decodes only FC06 frames leaves every
\* pending FIFO as it was; leading noise is discarded: FF 01 06 00 05 00 64
\* 98 20 yields the single event (1, 5, 100) with empty leftover.
C11_WriteSingleEmitsOne ==
    /\ \A i \in DOMAIN frames :
          (frames[i][2] = 6 /\ Len(frames[i]) = 8) =>
              EventsFrom(i) = <<<<frames[i][1],
                                 FromBig(SubSeq(frames[i], 3, 4)),
                                 FromBig(SubSeq(frames[i], 5, 6))>>>>
    /\ (frames # <<>> /\ \A i \in DOMAIN frames : frames[i][2] = 6) =>
          pending = prev.pending
    /\ (data = S2_NOISY /\ prev.buffer = <<>>) =>
          (frames = <<WR_S2>> /\ emitted = <<<<1, 5, 100>>>> /\ buffer = <<>>)

\* C11 witness: the noisy FC06 frame handled while a request is pending
C11_Witness ==
    /\ data = S2_NOISY
    /\ prev.buffer = <<>>
    /\ QueueOf(prev.pending, 1) # <<>>
    /\ pending = prev.pending
    /\ emitted = <<<<1, 5, 100>>>>

\* C12 as written, scenario S6 with the printed bytes: 01 10 00 10 00 02 04
\* 00 01 00 02 52 D4 yields (1, 16, 1) and (1, 17, 2).
C12_PrintedS6EmitsTwo ==
    (data = S6_PRINTED /\ prev.buffer = <<>>) =>
        emitted = <<<<1, 16, 1>>, <<1, 17, 2>>>>

\* C12: a decoded FC16 request carrying quantity values emits one update per
\* value at start, start+1, ... in that order; an FC16 response (4-byte
\* payload) emits none: 01 10 00 10 00 02 04 00 01 00 02 22 A2 yields
\* (1, 16, 1) and (1, 17, 2).
C12_WriteMultipleEmitsEach ==
    /\ \A i \in DOMAIN frames :
          LET f == frames[i]
              quantity == FromBig(SubSeq(f, 5, 6))
          IN  /\ (f[2] = 16 /\ Len(f) = 9 + 2 * quantity /\ f[7] = 2 * quantity) =>
                    EventsFrom(i) =
                        [k \in 1..quantity |->
                            <<f[1], FromBig(SubSeq(f, 3, 4)) + k - 1,
                              FromBig(SubSeq(f, 6 + 2 * k, 7 + 2 * k))>>]
              /\ (f[2] = 16 /\ Len(f) = 8) => EventsFrom(i) = <<>>
    /\ (data = WR_S6 /\ prev.buffer = <<>>) =>
          emitted = <<<<1, 16, 1>>, <<1, 17, 2>>>>

\* C12 witness: a write-multiple request and its response handled in one call
C12_Witness ==
    /\ frames = <<WR_S6, ACK_S6>>
    /\ emitted = <<<<1, 16, 1>>, <<1, 17, 2>>>>
    /\ buffer = <<>>

\* C13: the dispatches of one unit come in the order of their frames' bytes
\* in the capture stream, over all chunks and datagrams; within one call the
\* frames are decoded and handled in increasing stream position.
C13_EventsInStreamOrder ==
    /\ \A i, j \in DOMAIN log :
          (i < j /\ log[i].unit_id = log[j].unit_id) => log[i].at <= log[j].at
    /\ \A i, j \in DOMAIN starts : i < j => starts[i] < starts[j]
    /\ \A i, j \in DOMAIN origins : i < j => origins[i] <= origins[j]

\* C13 witness: two calls dispatched for one unit, the later one from two
\* frames of the same chunk
C13_Witness ==
    /\ calls = 2
    /\ Len(log) > Len(emitted)
    /\ \E i, j \in DOMAIN origins : origins[i] < origins[j]
    /\ \A i \in DOMAIN log : log[i].unit_id = 1

\* C20: get_register with unit_id None returns the value of the latest
\* sample whose register matches: no sample of that register, of any unit,
\* was written after the one whose value is returned.
C20_UnitlessReadIsLatest ==
    \A i \in DOMAIN values :
        \E k \in DOMAIN values :
            /\ values[k].register = values[i].register
            /\ values[k].value = get_register(values, None, values[i].register)
            /\ \A j \in DOMAIN values :
                  values[j].register = values[i].register
                      => values[j].updated_at <= values[k].updated_at

\* the k-th wait of a run of failures: 1, 2, 4, 8, 16, 30, 30, ...
ScheduledWait(k) == Min(2 ^ (k - 1), BackoffCap)

\* C14: the backoff of the TCP loop starts at 1 s, doubles after each failure
\* and is capped at 30 s: the k-th consecutive failed connect of a task is
\* followed by a wait of 1, 2, 4, 8, 16, 30, 30, ... seconds, the same holds
\* for the k-th wait since the last successful connect, and the interval is
\* never below 1 or above 30.
C14_BackoffSchedule ==
    /\ backoff \in BackoffStart..BackoffCap
    /\ streak > 0 => (wait = ScheduledWait(streak) /\ wait \in BackoffStart..BackoffCap)
    /\ (connects = 0 /\ pc = "sleep after failure") => wait = ScheduledWait(sleeps)

\* C14 witness: the seventh failed connect in a row waits 30 s again
C14_Witness ==
    /\ pc = "sleep after failure"
    /\ connects = 0
    /\ sleeps = 7
    /\ wait = 30

\* C15: a successful TCP connect resets the backoff to 1 s: whatever number
\* of failures preceded it, the wait after the loss of that connection is 1 s.
C15_ConnectResetsBackoff ==
    /\ pc = "sleep after loss" => wait = BackoffStart
    /\ (tcp_task = "alive" /\ pc \in {"read", "close"}) => backoff = BackoffStart

\* C15 witness: three failed connects (waits 1, 2, 4), a connect, its loss
C15_Witness ==
    /\ pc = "sleep after loss"
    /\ connects = 1
    /\ sleeps = 4
    /\ wait = 1

\* C16: when async_stop returns the hub has no transport, no reader task and
\* no writer, its leftover buffer is empty and every pending FIFO is empty,
\* whatever the hub was doing when async_stop was called.
C16_StopLeavesNothing ==
    ev = "stop returned" =>
        /\ ~transport
        /\ tcp_task = "none"
        /\ ~tcp_writer
        /\ buffer = <<>>
        /\ \A u \in DOMAIN pending : pending[u] = <<>>

\* C16 witness: a connected hub that held leftover bytes and a pending
\* request has been stopped
C16_Witness ==
    /\ ev = "stop returned"
    /\ mode = MODE_TCP
    /\ calls = 1
    /\ connects = 1
    /\ sleeps = 0
    /\ prev.buffer = <<>>
    /\ data = LIFE_BURST

\* hub object h holds an endpoint or a reader task it was not told to stop
Started(h) == objs[h].transport \/ (objs[h].task /\ ~objs[h].stop_requested)

\* the sensors present that are bound to hub object h
SensorsOf(h) == {s \in sensors : s.hub = h}

\* C17: if binding the UDP endpoint fails, async_start raises to the setup
\* (which raises PlatformNotReady), the hub holds no transport and is not
\* entered in the hub registry.
C17_BindFailureLeavesNoHub ==
    \A i \in 1..MaxSetups :
        setups[i].pc = "not ready" =>
            /\ objs[i].state = "failed"
            /\ ~objs[i].transport
            /\ hubs # i
            /\ port # i
            /\ SensorsOf(i) = {}

\* C17 witness: a bind failed while another hub holds the address
C17_Witness ==
    \E i, j \in 1..MaxSetups :
        /\ i # j
        /\ setups[i].pc = "not ready"
        /\ port = j

\* C18: one hub per (mode, host, port): in any interleaving of setups with
\* the same key at most one hub of that key is started at any time, it is
\* the registered one, and all sensors present share it.
C18_OneHubPerKey ==
    /\ Cardinality({h \in 1..MaxSetups : Started(h)}) <= 1
    /\ \A h \in 1..MaxSetups : Started(h) => hubs = h
    /\ \A s \in sensors : s.hub = hubs /\ Started(s.hub)

\* C18 witness: the sensors of two setups are bound to the same hub
C18_Witness ==
    \E s, t \in sensors :
        /\ s.setup # t.setup
        /\ s.hub = t.hub
        /\ Started(s.hub)

\* hub object h has had sensors bound to it
HadSensors(h) ==
    \E i \in 1..MaxSetups :
        setups[i].pc = "done" /\ setups[i].hub = h /\ setups[i].n > 0

\* C19: the registry is reference counted: the count of a registered hub is
\* the number of sensors present, a hub is never stopped while a sensor
\* bound to its key is present, and once the last such sensor is removed
\* the hub is stopped and no longer in the registry.
C19_TeardownOnLastSensor ==
    /\ \A s \in sensors : objs[s.hub].state = "running" /\ hubs = s.hub
    /\ hubs # None => listeners = Cardinality(sensors)
    /\ \A h \in 1..MaxSetups :
          (HadSensors(h) /\ SensorsOf(h) = {}) =>
              (objs[h].state \in {"stopping", "stopped"} /\ hubs # h)

\* C19 witness: the sensors of two setups were removed one by one and the
\* hub they shared has stopped
C19_Witness ==
    \E i, j \in 1..MaxSetups :
        /\ i # j
        /\ setups[i].pc = "done" /\ setups[i].n > 0
        /\ setups[j].pc = "done" /\ setups[j].n > 0
        /\ setups[i].hub = setups[j].hub
        /\ sensors = {}
        /\ objs[setups[i].hub].state = "stopped"

\* the store without its timestamps: which (unit, register) holds which value,
\* in the order of the keys
Contents(vals) ==
    [i \in DOMAIN vals |-> <<vals[i].unit_id, vals[i].register, vals[i].value>>]

Holds(vals, e) == \E i \in DOMAIN vals : Contents(vals)[i] = e

C28_FifoArrivalOrder ==
    \A unit \in DOMAIN pending :
        \A i, j \in DOMAIN pending[unit] :
            i < j => pending[unit][i].at <= pending[unit][j].at

\* C28 witness: a unit's queue holds two requests that arrived 2.5 s apart
C28_Witness ==
    \E unit \in DOMAIN pending :
        /\ Len(pending[unit]) >= 2
        /\ pending[unit][1].at < pending[unit][2].at

\* C27: the register values are retained for the lifetime of the hub: no step
\* of async_stop or of async_start changes the last-value map, so get_register
\* gives after a stop, and after the start that follows it, what it gave
\* before.
C27_ValuesRetained ==
    [][(async_stop \/ async_start) =>
          /\ values' = values
          /\ \A u \in {None, 1, 2} : \A r \in {0, 5} :
                get_register(values', u, r) = get_register(values, u, r)]_vars

\* C27 witness: a hub that stored register 5 of unit 1 was stopped and
\* started again, and still answers 100
C27_Witness ==
    /\ mode = MODE_TCP
    /\ ev = "start returned"
    /\ tcp_task = "alive"
    /\ connects = 0
    /\ calls = 1
    /\ get_register(values, 1, 5) = 100
    /\ get_register(values, None, 5) = 100

\* the numbers a..b in order
Range(a, b) == [i \in 1..(b - a + 1) |-> a + i - 1]

IsPrefix(s, t) == Len(s) <= Len(t) /\ SubSeq(t, 1, Len(s)) = s

Elements(s) == {s[i] : i \in DOMAIN s}

\* the messages that are new to handler h: those broadcast after it joined,
\* and the one whose broadcast was under way when it joined unless the
\* replay buffer it copied holds that message already
NewSince(h) ==
    IF sse[h].inflight # None /\ sse[h].inflight \notin Elements(sse[h].joined)
    THEN Range(sse[h].inflight, published)
    ELSE Range(sse[h].after + 1, published)

\* C22: a subscriber that joins the event stream receives the contents of the
\* replay buffer at the time it joined first, and then the messages broadcast
\* after it joined, all in publication order, for any interleaving of joins
\* and broadcasts: what it has received so far is the beginning of the replay
\* buffer it copied followed by the messages new to it.
C22_ReplayThenLive ==
    \A h \in Handlers :
        sse[h].pc # "new" => IsPrefix(sse[h].seen, sse[h].joined \o NewSince(h))

\* C23: after any sequence of k broadcasts the replay buffer holds exactly the
\* min(k, N) most recently broadcast messages in publication order, N being
\* the configured history size.
C23_HistoryHoldsLatest ==
    message_history = Range(published - Min(published, maxlen) + 1, published)

\* C23 witness: three broadcasts with the default size: messages 2 and 3 are kept
C23_Witness ==
    /\ maxlen = MESSAGE_HISTORY
    /\ published = 3
    /\ pushing = None
    /\ message_history = <<2, 3>>

\* C24: the packet log round-trips: reading the log returns the (timestamp,
\* payload) pairs that were appended, in append order; a payload written as
\* unspaced hex reads like the space-separated one, and a line without a
\* comma is skipped and leaves the entries of the other lines as they are.
C24_PacketLogRoundTrip ==
    read_packet_log(packet_log, None) = written

\* C24 witness: an appended entry, a line without a comma and an unspaced
\* line, read back as two entries
C24_Witness ==
    /\ Len(packet_log) = 3
    /\ packet_log[1] = STAMP_A \o <<",", "A", "B", " ", "0", "A", " ", "F", "F">>
    /\ packet_log[2] = <<"0", "1", " ", "0", "3">>
    /\ packet_log[3] = STAMP_A \o <<",", "0", "1", "0", "3">>
    /\ read_packet_log(packet_log, None) =
          <<<<STAMP_A, <<171, 10, 255>>>>, <<STAMP_A, <<1, 3>>>>>>

Max(a, b) == IF a > b THEN a ELSE b

AddressNotice == "Intervallo indirizzi invertito: limiti scambiati."
TimeNotice == "Intervallo temporale invertito: limiti scambiati."

\* the rows of all_rows a query asks for: address within the closed range of
\* the address bounds given, timestamp within the closed range of the time
\* bounds given, whichever way round each pair of bounds was given
Asked(query, all_rows) ==
    LET a == parse_address_value(query.start)
        b == parse_address_value(query.end)
        lo == IF a # None /\ b # None THEN Min(a, b) ELSE a
        hi == IF a # None /\ b # None THEN Max(a, b) ELSE b
        s == parse_datetime_value(query.start_ts).time
        e == parse_datetime_value(query.end_ts).time
        both == s.given /\ e.given
        from == IF both /\ Earlier(e.at, s.at) THEN e ELSE s
        to == IF both /\ Earlier(e.at, s.at) THEN s ELSE e
        InRange(range, row) ==
            /\ range.lo # None => range.lo <= row.address_dec
            /\ range.hi # None => row.address_dec <= range.hi
            /\ range.from.given => /\ strptime(row.timestamp).ok
                                   /\ ~Earlier(strptime(row.timestamp).at, range.from.at)
            /\ range.to.given => /\ strptime(row.timestamp).ok
                                 /\ ~Earlier(range.to.at, strptime(row.timestamp).at)
    IN  LET range == CHOOSE r \in {[lo |-> lo, hi |-> hi, from |-> from, to |-> to]} : TRUE
        IN  SelectSeq(all_rows, LAMBDA row : InRange(range, row))

\* C25: history queries filter by inclusive ranges and repair inverted bounds:
\* when both bounds of the address range, or of the time range, are given with
\* end < start they are swapped and a notice is returned, and only then; the
\* rows kept are exactly those whose address lies in [min, max] and whose
\* timestamp lies in [min_ts, max_ts], bounds included.
C25_InclusiveRepairedRanges ==
    probe.op = "history" =>
        LET query == probe.query
            filters == probe.result.filters
            a == parse_address_value(query.start)
            b == parse_address_value(query.end)
            s == parse_datetime_value(query.start_ts).time
            e == parse_datetime_value(query.end_ts).time
            address_inverted == a # None /\ b # None /\ b < a
            time_inverted == s.given /\ e.given /\ Earlier(e.at, s.at)
        IN  /\ probe.result.rows = Asked(query, HistoryRows)
            /\ address_inverted <=> AddressNotice \in Elements(probe.result.messages)
            /\ time_inverted <=> TimeNotice \in Elements(probe.result.messages)
            /\ address_inverted => filters.start_addr = b /\ filters.end_addr = a
            /\ time_inverted => filters.start_time = e /\ filters.end_time = s

\* C25 witness: start=0x10&end=5 with the time bounds inverted too: both
\* notices, and the rows on the bounds (address 5 at the first instant,
\* address 16 at the last) are among the rows kept
C25_Witness ==
    /\ probe.op = "history"
    /\ probe.query = [start |-> <<"0", "x", "1", "0">>, end |-> <<"5">>,
                      start_ts |-> STAMP_C, end_ts |-> STAMP_A]
    /\ probe.result.messages = <<AddressNotice, TimeNotice>>
    /\ probe.result.rows =
          <<[timestamp |-> STAMP_C, address_dec |-> 16],
            [timestamp |-> STAMP_C, address_dec |-> 5],
            [timestamp |-> STAMP_B, address_dec |-> 6],
            [timestamp |-> STAMP_A, address_dec |-> 16],
            [timestamp |-> STAMP_A, address_dec |-> 7],
            [timestamp |-> STAMP_A, address_dec |-> 5]>>

\* C26: CRC round-trip: for every byte sequence p, the CRC-16/Modbus of p
\* followed by the two-byte little-endian encoding of its own CRC is 0.
C26_CrcRoundTrip ==
    probe.op = "compute_crc" =>
        /\ probe.framed = 0
        /\ probe.crc \in 0..65535

\* C26 witness: the request body 01 03 00 00 00 02 has CRC 0x0BC4, sent as
\* C4 0B, and the eight bytes together have CRC 0
C26_Witness ==
    /\ probe.op = "compute_crc"
    /\ probe.p = <<1, 3, 0, 0, 0, 2>>
    /\ probe.crc = 3012
    /\ crc_le(probe.p) = <<196, 11>>
    /\ probe.framed = 0

FrameTypes == {"request", "response", "unknown", "exception"}

\* C29, as claimed: for every function byte and payload decode_modbus_payload
\* returns a result whose frame_type is one of request, response, unknown,
\* exception.
C29_FrameTypeOfFour ==
    probe.op = "decode_modbus_payload" => probe.result.frame_type \in FrameTypes

\* C29, amended: for every function byte and payload decode_modbus_payload
\* returns a result whose frame_type is one of request, response,
\* request/response, unknown, exception; request/response is the type of a
\* FC05 or FC06 payload of four bytes or more, and exception the type of
\* every function byte with bit 7 set, which also sets the exception flag.
C29_FrameTypeOfFive ==
    probe.op = "decode_modbus_payload" =>
        LET result == probe.result
            set == probe.function_code # None /\ probe.function_code >= 128
        IN  /\ result.frame_type \in FrameTypes \cup {"request/response"}
            /\ result.frame_type = "request/response" <=>
                  (~set /\ probe.function_code # None
                     /\ probe.function_code % 128 \in {5, 6} /\ Len(probe.pdu) >= 4)
            /\ result.frame_type = "exception" <=> set
            /\ result.is_exception <=> set
            /\ \A i \in DOMAIN result.fields :
                  result.fields[i].dec = None \/ result.fields[i].dec \in 0..65535

\* C29 witness: function 6 with payload 00 02 00 FF is a request/response
C29_Witness ==
    /\ probe.op = "decode_modbus_payload"
    /\ probe.function_code = 6
    /\ probe.pdu = <<0, 2, 0, 255>>
    /\ probe.result.frame_type = "request/response"
    /\ probe.result.fields = <<make_field(<<"Address">>, 2, 2), make_field(<<"Value">>, 255, 2)>>

DiagnosticNotes == {"Byte count maggiore dei dati disponibili.",
                    "Byte count non coerente con la lunghezza dei dati."}

\* C30: for an FC15 or FC16 request payload (length >= 5), whenever the
\* encoded byte_count disagrees with the number of data bytes present after
\* it, larger or smaller, decode_modbus_payload still decodes the bytes that
\* are present, as a request, and adds a diagnostic note to the decoded frame.
C30_ByteCountMismatchNoted ==
    (/\ probe.op = "decode_modbus_payload"
     /\ probe.function_code \in {15, 16}
     /\ Len(probe.pdu) >= 5
     /\ probe.pdu[5] # Len(probe.pdu) - 5)
        => /\ probe.result.frame_type = "request"
           /\ \E i \in DOMAIN probe.result.notes :
                 probe.result.notes[i].text \in DiagnosticNotes

\* the rows the reads logged at second i hold, as (timestamp, address, value)
ReadsAt(i) ==
    IF i % 7 = 0 THEN <<>>
    ELSE [k \in 1..LongBlock |-> [timestamp |-> StampOf(i), address_dec |-> k - 1,
                          value_dec |-> ReadingAt(i)[k]]]

Project(rows) ==
    [k \in 1..Len(rows) |-> [timestamp |-> rows[k].timestamp,
                             address_dec |-> rows[k].address_dec,
                             value_dec |-> rows[k].value_dec]]

\* the line of LongLog a row comes from
LineOf(row) ==
    LET at == strptime(row.timestamp).at IN at[5] * 60 + at[6]

\* C31: when more than 1,000 rows match the filters of a history query, the
\* rows returned are 1,000 matching rows and no matching row left out comes
\* from a later line of the packet log than a row returned: every line after
\* the oldest line returned gives all its matching rows, that line gives some
\* of its matching rows, and no line before it gives any.
C31_MostRecentThousand ==
    probe.op = "history_log" =>
        LET query == probe.query
            rows == Project(probe.result.rows)
            matching == [i \in 1..LongLines |-> Asked(query, ReadsAt(i))]
            total == SumOf([i \in 1..LongLines |-> Len(matching[i])])
        IN  total > HistoryLimit =>
              /\ Len(rows) = HistoryLimit
              /\ LET cut == LineOf(rows[HistoryLimit])
                     from == [i \in 1..LongLines |->
                                SelectSeq(rows, LAMBDA r : r.timestamp = StampOf(i))]
                 IN  \A i \in 1..LongLines :
                        /\ i > cut => from[i] = matching[i]
                        /\ i < cut => from[i] = <<>>
                        /\ i = cut =>
                              /\ from[i] # <<>>
                              /\ Elements(from[i]) \subseteq Elements(matching[i])
                              /\ Cardinality(Elements(from[i])) = Len(from[i])

\* C31 witness: a query with an upper time bound and an upper address bound
\* has more than 1,000 matching rows; the page starts at the newest matching
\* line, not at the newest line of the log, and ends inside a line
C31_Witness ==
    /\ probe.op = "history_log"
    /\ probe.query.end = <<"1", "4">>
    /\ probe.query.end_ts # <<>>
    /\ Len(probe.result.rows) = HistoryLimit
    /\ probe.result.rows[1].timestamp = StampOf(LongLines - 5)
    /\ LET last == probe.result.rows[HistoryLimit]
       IN  /\ last.address_dec < 14
           /\ Len(Asked(probe.query, ReadsAt(LineOf(last)))) > last.address_dec + 1

\* C32: no frame whose function byte has the exception flag (bit 7) set makes
\* the hub dispatch a register update or write the register store, whatever
\* the length of the frame the reconstructor emitted: every update of a call
\* comes from a frame without the flag, and a call whose frames all carry the
\* flag leaves the store as it was.
C32_FlaggedFramesAreSilent ==
    /\ \A k \in DOMAIN origins : frames[origins[k]][2] < 128
    /\ (frames # <<>> /\ \A i \in DOMAIN frames : frames[i][2] >= 128)
          => values = prev.values

\* the units of the frames of the last call
UnitsHandled == {frames[i][1] : i \in DOMAIN frames}

\* the start addresses of the FC03 requests a response of `unit` can be
\* paired with in the last call: those pending for the unit before the call
\* and those of the unit's request frames of the call
RequestsOf(unit) ==
    {QueueOf(prev.pending, unit)[k].start_addr : k \in DOMAIN QueueOf(prev.pending, unit)}
    \cup {parse_fc03_request(frames[i]).start_addr :
             i \in {j \in DOMAIN frames : /\ frames[j][1] = unit
                                          /\ parse_fc03_request(frames[j]).some}}

\* C33: pending requests are correlated per unit: a response of unit u takes
\* its start address only from a request of unit u (and counts as missed when
\* unit u has none, whatever other units have pending), and the frames of a
\* call leave the pending FIFO of every unit they do not belong to unchanged.
C33_CorrelationPerUnit ==
    /\ \A i \in DOMAIN handled :
          /\ ~handled[i].missed =>
                handled[i].entry[1].start_addr \in RequestsOf(handled[i].unit)
          /\ RequestsOf(handled[i].unit) = {} => handled[i].missed
    /\ \A v \in (DOMAIN pending \cup DOMAIN prev.pending) \ UnitsHandled :
          QueueOf(pending, v) = QueueOf(prev.pending, v)

\* C33 witness: requests of units 1 and 2 pending together; the response of
\* unit 2 comes first and takes the address of unit 2's request (32), the
\* response of unit 1 then finds its own request (0)
C33_Witness ==
    /\ data = CROSS_BURST
    /\ Len(frames) = 4
    /\ emitted = <<<<2, 32, 255>>, <<1, 0, 10>>, <<1, 1, 20>>>>
    /\ Len(handled) = 2
    /\ handled[1].unit = 2 /\ ~handled[1].missed
    /\ handled[2].unit = 1 /\ ~handled[2].missed

\* C34: the leftover split_modbus_frames returns has fewer than 4 bytes, so
\* the buffer the hub keeps from one call of _process_bytes to the next never
\* holds more than 3 bytes.
C34_LeftoverBelowFour ==
    /\ Len(buffer) <= 3
    /\ Len(split_modbus_frames(payload).leftover) < 4
    /\ Len(split_modbus_frames(data).leftover) < 4

\* C34 witness: a call whose input ends in 5 bytes that start no frame, after
\* a frame was found: the leftover is the last 3 of them
C34_Witness ==
    /\ Len(frames) = 1
    /\ Len(payload) = Len(frames[1]) + 5
    /\ Len(buffer) = 3
    /\ buffer = SubSeq(payload, Len(payload) - 2, Len(payload))

\* C35: the frame reconstructor of the integration (parser.py) and that of
\* the dashboard (udp_web_server.py) return the same frames and the same
\* leftover for the same bytes.
C35_ReconstructorsAgree ==
    probe.op = "split_modbus_frames" => probe.hub = probe.web

\* C36: no subscriber of the event stream receives the same broadcast message
\* twice, for any interleaving of a join with a concurrent broadcast: each
\* message reaches a subscriber through the replay snapshot or through its
\* inbox, never through both.
C36_NoDuplicateDelivery ==
    \A h \in Handlers :
        \A i, j \in DOMAIN sse[h].seen : i # j => sse[h].seen[i] # sse[h].seen[j]

\* C37: a hub that is in the hub registry has a listener count of at least 1
\* once the setup that created it has finished, also when none of the
\* setup's sensor bindings is valid, so that removing sensors can stop it.
C37_RegisteredHubHasListener ==
    (hubs # None /\ setups[hubs].pc = "done") => (listeners # None /\ listeners >= 1)

\* C38: for one logged payload holding FC03 requests and responses of one
\* unit, the history extractor gives every response value the register
\* address the hub gives it when the hub receives the same payload with no
\* request pending and no time passing.
C38_ExtractorMatchesHub ==
    probe.op = "correlate" =>
        [k \in DOMAIN probe.rows |-> <<probe.rows[k].address_dec, probe.rows[k].value_dec>>]
          = [k \in DOMAIN probe.emitted |-> <<probe.emitted[k][2], probe.emitted[k][3]>>]

\* C39: when an established TCP connection ends (end of stream, I/O error or
\* cancellation) the leftover buffer is emptied before the hub connects
\* again, so a connection starts with no bytes of an earlier one; the steps
\* of _tcp_run from the loss of a connection to the next one leave the
\* pending requests of every unit as they are.
C39_ReconnectStartsClean ==
    [][/\ TcpConnected => (buffer = <<>> /\ buffer' = <<>>)
       /\ (TcpConnectionLost \/ TcpWriterClosed \/ TcpSleepDone
             \/ TcpConnectFailed \/ TcpConnected) => pending' = pending]_vars

\* C39 witness: the first connection delivered a read that left two bytes
\* and a pending request, then ended; the read of the second connection is
\* parsed on its own, and the request of the first connection was still
\* pending when it came
C39_Witness ==
    /\ mode = MODE_TCP
    /\ connects = 2 /\ pc = "read"
    /\ calls = 2 /\ data = LIFE_BURST
    /\ Len(split_modbus_frames(data).leftover) = 2
    /\ prev.buffer = <<>>
    /\ payload = data
    /\ Len(QueueOf(prev.pending, 1)) = 1
    /\ Len(QueueOf(pending, 1)) = 2

\* what a hub holds: everything of the hub but the record of the last call
HubState == <<transport, tcp_task, tcp_writer, stop_requested, lock, taskVars, held,
              streamVars>>

\* C40: async_start is idempotent while the hub is running: whatever the
\* order of async_start and async_stop calls, the hub never has more than
\* one open UDP endpoint nor more than one live reader task, the endpoint and
\* the task it has are the ones it refers to, and an async_start that finds
\* the hub running changes nothing.
C40_StartIsIdempotent ==
    /\ [](/\ held.endpoints <= 1 /\ held.tasks <= 1
          /\ held.endpoints = (IF transport THEN 1 ELSE 0)
          /\ held.tasks = (IF tcp_task = "alive" THEN 1 ELSE 0))
    /\ [][((AsyncStartTcp /\ tcp_task = "alive") \/ (AsyncStartUdp /\ transport))
            => UNCHANGED HubState]_vars

\* C40 witness: async_start called on a hub whose reader task is connected
\* and has received data returns at once; one task is alive
C40_Witness ==
    /\ mode = MODE_TCP
    /\ ev = "start found it running"
    /\ tcp_task = "alive" /\ pc = "read" /\ calls >= 1
    /\ held.tasks = 1

====
